---- MODULE Spec2Model ----
(***************************************************************************)
(* A model of the PeerBridge client: the system state machine with its     *)
(* event queue (SystemStateManager), the UDP transport (UDPNetwork) and    *)
(* the session supervisor (P2PSystem).                                     *)
(***************************************************************************)
EXTENDS Integers, Sequences, FiniteSets, Bags, TLC

(***************************************************************************)
(* Bounds of the model                                                     *)
(***************************************************************************)
\* headers one endpoint may attach before no new operation is started
MaxSeq == 3
\* events that may wait in the event queue
MaxQueue == 2
\* frames the network holds in flight towards one endpoint
MaxInFlight == 2
\* headers one endpoint may attach before time stops passing
MaxTickSeq == 12
\* how far below the 32-bit wrap the counter starts where the wrap is examined
WrapLead == 2
\* headers past the wrap after which no further packet enters the data path
PastWrap == 1
\* headers one endpoint may attach before no further packet enters the data path
MaxData == 2

(***************************************************************************)
(* Program constants                                                       *)
(***************************************************************************)
MAGIC_NUMBER == 305419896
PROTOCOL_VERSION == 1
MAX_PACKET_SIZE == 65507
HEADER_SIZE == 16
U16Modulus == 65536
HOLE_PUNCH == 1
HEARTBEAT == 2
MESSAGE == 3
ACK == 4
DISCONNECT == 5
HolePunchCount == 5
DisconnectCount == 3
KeepAliveSec == 3
TimeoutSec == 20

(***************************************************************************)
(* SystemState, systemstatemanager.hpp                                     *)
(***************************************************************************)
IDLE == "IDLE"
CONNECTING == "CONNECTING"
CONNECTED == "CONNECTED"
SHUTTING_DOWN == "SHUTTING_DOWN"

SystemState == {IDLE, CONNECTING, CONNECTED, SHUTTING_DOWN}

\* The two endpoints; each names its own public address.  Stranger is the
\* address of a third party that can reach the socket.
Ends == {"A", "B"}
Stranger == "X"
NoEndpoint == "none"
Peer(e) == IF e = "A" THEN "B" ELSE "A"

\* The threads of one process that enter the supervisor: the main thread
\* (initialize, shutdown, destructor), the CLI input thread, the signaling
\* worker and the monitor thread.
Threads == {"main", "cli", "sig", "mon"}

VARIABLES
    current_state,   \* SystemStateManager::current_state_
    event_queue,     \* SystemStateManager::event_queue_
    running,         \* UDPNetwork::running
    connected,       \* PeerConnectionInfo::connected_
    elapsed,         \* seconds since PeerConnectionInfo::last_activity_
    peerEndpoint,    \* UDPNetwork::peerEndpoint
    nextSeqNumber,   \* UDPNetwork::nextSeqNumber
    pendingAcks,     \* UDPNetwork::pendingAcks (its keys)
    keepAliveTimer,  \* UDPNetwork::keepAliveTimer
    ioRunning,       \* the io worker runs handlers and the socket is open
    receiving,       \* an async_receive_from is outstanding on the socket
    completions,     \* sends of sendMessage whose completion handler has not run
    posted,          \* handlers posted to the io context by handleSendComplete
    sysRunning,      \* P2PSystem::running
    isHost,          \* P2PSystem::isHost
    localVirtualIp,  \* P2PSystem::localVirtualIp, its octets; empty at first
    peerVirtualIp,   \* P2PSystem::peerVirtualIp
    pendingRequest,  \* P2PSystem::pendingRequestFrom is not empty
    tun,             \* P2PSystem::tunInterface: none, ready, processing, closed
    netModule,       \* P2PSystem::networkModule is not null
    configured,      \* the routes and firewall rules of the applier are installed
    monitor,         \* P2PSystem::monitorThread: none, running, exited, joined
    exiting,         \* main has returned: the destructor of P2PSystem runs
    pc,              \* per thread: position in the supervisor's code
    cnt,             \* per thread: remaining iterations of a send loop
    ret,             \* per thread: where UDPNetwork::stopConnection returns to
    loc,             \* per thread: the packet built by sendDisconnectNotification
    out,             \* the frames handed to the socket by the last step
    delivered,       \* the payloads the last step handed to the message callback, each
                     \* with whether handleNetworkData put it on the tunnel's queue
    net,             \* the frames in flight between the endpoints
    outgoingPackets, \* TunInterface::outgoingPackets
    wintun,          \* the packets the tunnel's send thread wrote to the adapter in the last step
    stopped,         \* UDPNetwork::stopConnection returned, no connection attempt begun since
    lastMsgSeq,      \* sequence number of the last MESSAGE frame emitted, <<>> if none
    wrapped,         \* nextSeqNumber wrapped to 0 since that MESSAGE frame
    ssPc,            \* per caller: position inside setState
    ssCur,           \* per caller: the local `current` of setState
    ssTgt            \* per caller: the argument new_state of setState

smVars == <<current_state, event_queue>>
netVars == <<running, connected, elapsed, peerEndpoint, nextSeqNumber, pendingAcks,
             keepAliveTimer, ioRunning, receiving, completions, posted>>
sysVars == <<sysRunning, isHost, localVirtualIp, peerVirtualIp, pendingRequest, tun,
             netModule, configured, monitor, exiting>>
thrVars == <<pc, cnt, ret, loc>>
wireVars == <<out, delivered, net>>
ghostVars == <<stopped, lastMsgSeq, wrapped>>
ssVars == <<ssPc, ssCur, ssTgt>>
tunVars == <<outgoingPackets, wintun>>
vars == <<smVars, netVars, sysVars, thrVars, wireVars, ghostVars, ssVars, tunVars>>

\* SystemStateManager::isValidTransition with CONNECTING -> CONNECTING allowed
isValidTransitionLoose(from, to) ==
    CASE from = IDLE -> to \in {IDLE, CONNECTING, SHUTTING_DOWN}
      [] from = CONNECTING -> to \in {CONNECTING, CONNECTED, IDLE, SHUTTING_DOWN}
      [] from = CONNECTED -> to \in {CONNECTED, IDLE, SHUTTING_DOWN}
      [] from = SHUTTING_DOWN -> to = SHUTTING_DOWN
      [] OTHER -> FALSE

\* SystemStateManager::isValidTransition
isValidTransition(from, to) ==
    CASE from = IDLE -> to \in {IDLE, CONNECTING, SHUTTING_DOWN}
      [] from = CONNECTING -> to \in {CONNECTED, IDLE, SHUTTING_DOWN}
      [] from = CONNECTED -> to \in {CONNECTED, IDLE, SHUTTING_DOWN}
      [] from = SHUTTING_DOWN -> to = SHUTTING_DOWN
      [] OTHER -> FALSE

\* SystemStateManager::setState run without interruption: the state it leaves
setState(s, t) == IF isValidTransition(s, t) THEN t ELSE s

(***************************************************************************)
(* NetworkEvent and the event queue, systemstatemanager.hpp/.cpp           *)
(***************************************************************************)
PEER_CONNECTED == "PEER_CONNECTED"
ALL_PEERS_DISCONNECTED == "ALL_PEERS_DISCONNECTED"
SHUTDOWN_REQUESTED == "SHUTDOWN_REQUESTED"

\* NetworkEventData: the event and, for PEER_CONNECTED, the endpoint string
NetworkEventData(event, endpoint) == [event |-> event, data |-> endpoint]

\* SystemStateManager::queueEvent putting the event at the front of the queue
queueEventFront(q, ev) == <<ev>> \o q

\* SystemStateManager::queueEvent
queueEvent(q, ev) == Append(q, ev)

\* SystemStateManager::getNextEvent: the event returned and the queue left
getNextEvent(q) == [event |-> Head(q), rest |-> Tail(q)]

(***************************************************************************)
(* The frame codec: UDPNetwork::attachCustomHeader, sendMessage and the    *)
(* parsing at the head of processReceivedData.  A packet is a sequence of  *)
(* bytes; byte k of the C++ vector is element k + 1 here.                  *)
(***************************************************************************)
Zeros(n) == [i \in 1..n |-> 0]

\* A uint32_t is kept as its two 16-bit halves <<high, low>>, so that the
\* arithmetic keeps its 32-bit width.
ToU32(n) == << (n \div U16Modulus) % U16Modulus, n % U16Modulus >>
LessU32(a, b) == a[1] < b[1] \/ (a[1] = b[1] /\ a[2] < b[2])
\* v + n in uint32_t, for a small natural n
AddU32(v, n) ==
    LET low == v[2] + n
    IN  << (v[1] + (low \div U16Modulus)) % U16Modulus, low % U16Modulus >>

\* the four bytes of v written low byte first
BE32LowFirst(v) == << v[2] % 256, v[2] \div 256, v[1] % 256, v[1] \div 256 >>

\* the four bytes (v >> 24) & 0xFF, (v >> 16) & 0xFF, (v >> 8) & 0xFF, v & 0xFF
BE32(v) == << v[1] \div 256, v[1] % 256, v[2] \div 256, v[2] % 256 >>

\* (b[k] << 8) | b[k+1]
U16At(b, k) == b[k + 1] * 256 + b[k + 2]

\* (b[k] << 24) | (b[k+1] << 16) | (b[k+2] << 8) | b[k+3] for the C++ offset k
U32At(b, k) == << U16At(b, k), U16At(b, k + 2) >>

\* nextSeqNumber++ that leaves the counter where it is
NextSeqStuck(n) == n

\* nextSeqNumber++ on a std::atomic<uint32_t>: the value the counter takes
NextSeq(n) == AddU32(n, 1)

\* UDPNetwork::attachCustomHeader: the bytes it writes into the packet
attachCustomHeader(packet, packetType, seq) ==
    [i \in 1..Len(packet) |->
        CASE i \in 1..4 -> BE32(ToU32(MAGIC_NUMBER))[i]
          [] i = 5 -> (PROTOCOL_VERSION \div 256) % 256
          [] i = 6 -> PROTOCOL_VERSION % 256
          [] i = 7 -> packetType
          [] i \in 9..12 -> BE32(seq)[i - 8]
          [] OTHER -> packet[i]]

\* A header-only packet: sendHolePunchPacket, sendDisconnectNotification, the ACK
ControlPacket(packetType, seq) == attachCustomHeader(Zeros(HEADER_SIZE), packetType, seq)

\* UDPNetwork::sendMessage: header, msg_len at bytes 12..15, then the payload
MessagePacket(seq, dataToSend) ==
    LET hdr == attachCustomHeader(Zeros(HEADER_SIZE), MESSAGE, seq)
        len == BE32(ToU32(Len(dataToSend)))
    IN  [i \in 1..HEADER_SIZE |-> IF i \in 13..16 THEN len[i - 12] ELSE hdr[i]] \o dataToSend

\* processReceivedData: the checks that precede the activity update
ValidHeader(data) ==
    /\ Len(data) >= HEADER_SIZE
    /\ U32At(data, 0) = ToU32(MAGIC_NUMBER)
    /\ U16At(data, 4) = PROTOCOL_VERSION

PacketTypeOf(data) == data[7]
SeqOf(data) == U32At(data, 8)
MsgLenOf(data) == U32At(data, 12)

\* processReceivedData, case MESSAGE: 16 + msgLen > bytesTransferred in uint32_t
MsgLenOk(data) == ~LessU32(ToU32(Len(data)), AddU32(MsgLenOf(data), HEADER_SIZE))

\* processReceivedData, case MESSAGE, that copies every byte behind the header
TunPacketOfRest(data) == SubSeq(data, HEADER_SIZE + 1, Len(data))

\* processReceivedData, case MESSAGE: the bytes copied into tunPacket
TunPacketOf(data) ==
    LET msgLen == MsgLenOf(data)[1] * U16Modulus + MsgLenOf(data)[2]
    IN  SubSeq(data, HEADER_SIZE + 1, HEADER_SIZE + msgLen)

\* A frame on the wire
Frame(src, dst, data) == [src |-> src, dst |-> dst, data |-> data]

(***************************************************************************)
(* Construction: P2PSystem::P2PSystem, UDPNetwork::UDPNetwork,             *)
(* SystemStateManager::SystemStateManager, PeerConnectionInfo              *)
(***************************************************************************)
Set(f, e, v) == [f EXCEPT ![e] = v]
SetT(f, e, t, v) == [f EXCEPT ![e][t] = v]

\* the largest value of elapsed the model tells apart: the first multiple of
\* the keep-alive period beyond the timeout
ElapsedCap == ((TimeoutSec \div KeepAliveSec) + 1) * KeepAliveSec

\* the value of outgoingPackets in a specification that leaves the tunnel's
\* send thread out: the content of the queue is not followed there
Unfollowed == << <<>> >>

SystemConstructed ==
    /\ current_state = [e \in Ends |-> IDLE]
    /\ event_queue = [e \in Ends |-> <<>>]
    /\ running = [e \in Ends |-> FALSE]
    /\ connected = [e \in Ends |-> FALSE]
    /\ elapsed = [e \in Ends |-> 0]
    /\ peerEndpoint = [e \in Ends |-> NoEndpoint]
    /\ pendingAcks = [e \in Ends |-> {}]
    /\ keepAliveTimer = [e \in Ends |-> "off"]
    /\ ioRunning = [e \in Ends |-> FALSE]
    /\ receiving = [e \in Ends |-> FALSE]
    /\ completions = [e \in Ends |-> {}]
    /\ posted = [e \in Ends |-> {}]
    /\ sysRunning = [e \in Ends |-> FALSE]
    /\ isHost = [e \in Ends |-> FALSE]
    /\ localVirtualIp = [e \in Ends |-> <<>>]
    /\ peerVirtualIp = [e \in Ends |-> <<>>]
    /\ pendingRequest = [e \in Ends |-> FALSE]
    /\ tun = [e \in Ends |-> "none"]
    /\ netModule = [e \in Ends |-> FALSE]
    /\ configured = [e \in Ends |-> FALSE]
    /\ monitor = [e \in Ends |-> "none"]
    /\ exiting = [e \in Ends |-> FALSE]
    /\ pc = [e \in Ends |-> [t \in Threads |-> IF t = "main" THEN "start" ELSE "idle"]]
    /\ cnt = [e \in Ends |-> [t \in Threads |-> 0]]
    /\ ret = [e \in Ends |-> [t \in Threads |-> "idle"]]
    /\ loc = [e \in Ends |-> [t \in Threads |-> <<>>]]
    /\ out = <<>>
    /\ delivered = <<>>
    /\ net = EmptyBag
    /\ stopped = [e \in Ends |-> FALSE]
    /\ lastMsgSeq = [e \in Ends |-> <<>>]
    /\ wrapped = [e \in Ends |-> FALSE]
    /\ ssPc = [p \in Threads |-> "idle"]
    /\ ssCur = [p \in Threads |-> IDLE]
    /\ ssTgt = [p \in Threads |-> IDLE]

\* the tunnel's queue at the start of a specification without the send thread
TunUnfollowed ==
    /\ outgoingPackets = [e \in Ends |-> Unfollowed]
    /\ wintun = <<>>

\* TunInterface as constructed: an empty queue, nothing written
TunFollowed ==
    /\ outgoingPackets = [e \in Ends |-> <<>>]
    /\ wintun = <<>>

InitSystem == SystemConstructed /\ TunUnfollowed

Init ==
    /\ InitSystem
    /\ nextSeqNumber = [e \in Ends |-> ToU32(0)]

\* a process whose counter stands WrapLead below 2^32
InitWrap ==
    /\ InitSystem
    /\ nextSeqNumber = [e \in Ends |-> <<U16Modulus - 1, U16Modulus - WrapLead>>]

\* headers attached by e: one per call of attachCustomHeader
Attach(e) ==
    /\ nextSeqNumber' = Set(nextSeqNumber, e, NextSeq(nextSeqNumber[e]))
    /\ wrapped' = Set(wrapped, e, wrapped[e] \/ NextSeq(nextSeqNumber[e]) = ToU32(0))

NoAttach == UNCHANGED <<nextSeqNumber, wrapped>>

(***************************************************************************)
(* The packets of the virtual network and the filters of the packet bridge *)
(***************************************************************************)
HOST_IP == <<10, 0, 0, 1>>
CLIENT_IP == <<10, 0, 0, 2>>
SubnetBroadcast == <<10, 0, 0, 255>>
LimitedBroadcast == <<255, 255, 255, 255>>
IPHeaderSize == 20

\* utils::uint32ToIp, the dotted string given as its four octets
uint32ToIp(v) == BE32(v)

\* P2PSystem::forwardPacketToPeer that passes the peer's own packets only
ForwardsToPeerOnly(e, packet) == uint32ToIp(U32At(packet, 16)) = peerVirtualIp[e]

\* P2PSystem::forwardPacketToPeer: the packet is passed to sendMessage
ForwardsToPeer(e, packet) ==
    LET dstIp == U32At(packet, 16)
        dstIpStr == uint32ToIp(dstIp)
        isForPeer == dstIpStr = peerVirtualIp[e]
        isBroadcast == dstIpStr = SubnetBroadcast \/ dstIpStr = LimitedBroadcast
        isMulticast == (dstIp[1] \div 4096) = 14
    IN  isForPeer \/ isBroadcast \/ isMulticast

\* P2PSystem::handlePacketFromTun: the size and version test
IsIPv4Packet(packet) == Len(packet) >= IPHeaderSize /\ (packet[1] \div 16) = 4

\* an IPv4 header without options from src to dst
IPv4Packet(src, dst) == <<69, 0, 0, 20, 0, 0, 0, 0, 64, 1, 0, 0>> \o src \o dst

\* the packets the tunnel's receive thread reads from the adapter
TunPackets == { IPv4Packet(HOST_IP, CLIENT_IP), IPv4Packet(CLIENT_IP, HOST_IP),
                IPv4Packet(HOST_IP, <<10, 0, 0, 3>>), <<69, 0>> }

\* destinations on and off the virtual network: the two hosts, a third
\* address, the broadcasts, the ends of 224.0.0.0/4 and their neighbours
BridgeAddresses ==
    { HOST_IP, CLIENT_IP, <<10, 0, 0, 3>>, SubnetBroadcast, LimitedBroadcast,
      <<224, 0, 2, 60>>, <<239, 255, 255, 250>>, <<223, 255, 255, 255>>, <<240, 0, 0, 1>> }

\* the buffers that can reach the bridge: a header to each destination, an
\* echo request of 28 bytes, a buffer one byte short of a header, and a
\* header whose version nibble is 6
BridgePackets ==
    { IPv4Packet(HOST_IP, dst) : dst \in BridgeAddresses }
      \cup { IPv4Packet(HOST_IP, CLIENT_IP) \o <<8, 0, 0, 0, 0, 1, 0, 1>>,
             SubSeq(IPv4Packet(HOST_IP, CLIENT_IP), 1, IPHeaderSize - 1),
             [IPv4Packet(HOST_IP, CLIENT_IP) EXCEPT ![1] = 96] }

\* the longest payload sendMessage takes, and the packets of that length and
\* of one byte more that the adapter can hand over
MaxPayload == MAX_PACKET_SIZE - HEADER_SIZE
LargeTunPackets ==
    { IPv4Packet(CLIENT_IP, HOST_IP) \o Zeros(n - IPHeaderSize) : n \in {MaxPayload, MaxPayload + 1} }

\* P2PSystem::deliverPacketToTun that takes the packets meant for this host only
deliverPacketToTunOwn(e, packet) ==
    IF tun[e] = "processing" /\ uint32ToIp(U32At(packet, 16)) = localVirtualIp[e]
    THEN <<packet>>
    ELSE <<>>

\* P2PSystem::deliverPacketToTun: the buffers that TunInterface::sendPacket
\* pushes on outgoingPackets
deliverPacketToTun(e, packet) ==
    LET dstIp == U32At(packet, 16)
        dstIpStr == uint32ToIp(dstIp)
        isForUs == dstIpStr = localVirtualIp[e]
        isBroadcast == dstIpStr = SubnetBroadcast \/ dstIpStr = LimitedBroadcast
        isMulticast == (dstIp[1] \div 4096) = 14
    IN  IF tun[e] = "processing" /\ (isForUs \/ isBroadcast \/ isMulticast)
        THEN <<packet>>
        ELSE <<>>

\* P2PSystem::handleNetworkData, the message callback of the transport: the
\* buffers that reach the tunnel's queue
handleNetworkData(e, data) == IF IsIPv4Packet(data) THEN deliverPacketToTun(e, data) ELSE <<>>

(***************************************************************************)
(* The I/O worker of UDPNetwork: the handlers the io context runs, one at  *)
(* a time                                                                  *)
(***************************************************************************)
IoRuns(e) == netModule[e] /\ ioRunning[e]

\* UDPNetwork::handleDisconnect that notifies nobody
handleDisconnectSilent(e, q) == [connected |-> FALSE, queue |-> q]

\* UDPNetwork::handleDisconnect that returns when the transport does not run
handleDisconnectWhileRunning(e, q) ==
    IF ~connected[e] \/ ~running[e]
    THEN [connected |-> connected[e], queue |-> q]
    ELSE [connected |-> FALSE,
          queue |-> queueEvent(q, NetworkEventData(ALL_PEERS_DISCONNECTED, ""))]

\* UDPNetwork::handleDisconnect on the link flag of e and the queue q
handleDisconnect(e, q) ==
    IF ~connected[e]
    THEN [connected |-> FALSE, queue |-> q]
    ELSE [connected |-> FALSE,
          queue |-> queueEvent(q, NetworkEventData(ALL_PEERS_DISCONNECTED, ""))]

\* pendingAcks.erase(seq) that clears the map
PendingClear(acks, seq) == {}

\* pendingAcks.erase(seq)
PendingErase(acks, seq) == acks \ {seq}

\* processReceivedData that takes every valid frame received while running for
\* the first one
EstablishesOnEveryFrame(e, data) ==
    ValidHeader(data) /\ PacketTypeOf(data) # DISCONNECT /\ running[e]

\* processReceivedData: the frame is the first valid packet of a link, the
\* sender is stored and PEER_CONNECTED is notified
EstablishesConnection(e, data) ==
    ValidHeader(data) /\ PacketTypeOf(data) # DISCONNECT /\ running[e] /\ ~connected[e]

\* UDPNetwork::handleReceiveFrom without error, i.e. processReceivedData, for
\* the datagram data received from sender
ProcessReceivedData(e, data, sender) ==
    LET valid == ValidHeader(data)
        ptype == PacketTypeOf(data)
        seq == SeqOf(data)
        consumed == valid /\ ptype # DISCONNECT /\ ~running[e]
        establish == EstablishesConnection(e, data)
        switch == valid /\ ~consumed
        q1 == IF establish
              THEN queueEvent(event_queue[e], NetworkEventData(PEER_CONNECTED, sender))
              ELSE event_queue[e]
        disc == IF switch /\ ptype = DISCONNECT
                THEN handleDisconnect(e, q1)
                ELSE [connected |-> connected[e] \/ establish, queue |-> q1]
        msg == switch /\ ptype = MESSAGE /\ MsgLenOk(data)
        ack == switch /\ ptype = ACK
    IN  /\ Len(disc.queue) <= MaxQueue
        /\ elapsed' = IF valid THEN Set(elapsed, e, 0) ELSE elapsed
        /\ peerEndpoint' = IF establish THEN Set(peerEndpoint, e, sender) ELSE peerEndpoint
        /\ connected' = Set(connected, e, disc.connected)
        /\ event_queue' = Set(event_queue, e, disc.queue)
        /\ IF msg THEN Attach(e) ELSE NoAttach
        /\ out' = IF msg THEN <<Frame(e, sender, ControlPacket(ACK, seq))>> ELSE <<>>
        /\ delivered' = IF msg
                        THEN <<[to |-> e, payload |-> TunPacketOf(data),
                                toTun |-> handleNetworkData(e, TunPacketOf(data))]>>
                        ELSE <<>>
        /\ pendingAcks' = IF ack THEN Set(pendingAcks, e, PendingErase(pendingAcks[e], seq))
                          ELSE pendingAcks
        /\ UNCHANGED <<current_state, running, keepAliveTimer, ioRunning, receiving, completions, posted,
                       sysVars, thrVars, stopped, lastMsgSeq, ssVars>>

\* the errors a receive completion can report
ReceiveErrors == {"would_block", "try_again", "operation_aborted", "fatal"}

\* handleReceiveFrom, its first statement: startAsyncReceive is called when the
\* socket is open and the error is not operation_aborted
RearmsReceive(open, error) == open /\ error # "operation_aborted"

\* UDPNetwork::handleReceiveFrom without error: the next receive is queued
\* (the socket is open) and processReceivedData is called
HandleReceiveFrom(e, data, sender) ==
    /\ IoRuns(e)
    /\ receiving[e]
    /\ ProcessReceivedData(e, data, sender)

\* UDPNetwork::handleReceiveFrom with an error
HandleReceiveError(e, error) ==
    /\ IoRuns(e)
    /\ receiving[e]
    /\ receiving' = Set(receiving, e, RearmsReceive(ioRunning[e], error))
    /\ LET d == IF error = "fatal"
                THEN handleDisconnect(e, event_queue[e])
                ELSE [connected |-> connected[e], queue |-> event_queue[e]]
       IN  /\ Len(d.queue) <= MaxQueue
           /\ connected' = Set(connected, e, d.connected)
           /\ event_queue' = Set(event_queue, e, d.queue)
    /\ out' = <<>>
    /\ delivered' = <<>>
    /\ UNCHANGED <<current_state, running, elapsed, peerEndpoint, nextSeqNumber, pendingAcks,
                   keepAliveTimer, ioRunning, completions, posted, sysVars, thrVars, ghostVars,
                   ssVars>>

\* PeerConnectionInfo::hasTimedOut that counts every second twice
hasTimedOutEarly(e, timeout_seconds) == (2 * elapsed[e] > timeout_seconds) /\ connected[e]

\* PeerConnectionInfo::hasTimedOut
hasTimedOut(e, timeout_seconds) == (elapsed[e] > timeout_seconds) /\ connected[e]

\* UDPNetwork::startKeepAliveTimer on the timer value tm: the pending wait is
\* replaced, a handler that already expired stays queued
startKeepAliveTimer(isRunning, tm) ==
    IF ~isRunning THEN tm
    ELSE IF tm \in {"fired", "fired+armed"} THEN "fired+armed" ELSE "armed"

\* UDPNetwork::stopKeepAliveTimer: cancel() revokes the pending wait only
stopKeepAliveTimer(tm) ==
    IF tm = "armed" THEN "off" ELSE IF tm = "fired+armed" THEN "fired" ELSE tm

\* the timer once its expired handler has been taken off the io context
TimerTaken(tm) == IF tm = "fired+armed" THEN "armed" ELSE "off"

\* UDPNetwork::handleKeepAlive with an error other than operation_aborted
HandleKeepAlive(e) ==
    /\ IoRuns(e)
    /\ keepAliveTimer[e] \in {"fired", "fired+armed"}
    /\ IF ~running[e]
       THEN /\ keepAliveTimer' = Set(keepAliveTimer, e, TimerTaken(keepAliveTimer[e]))
            /\ out' = <<>>
            /\ NoAttach
            /\ UNCHANGED <<connected, event_queue>>
       ELSE LET timedOut == connected[e] /\ hasTimedOut(e, TimeoutSec)
            IN  /\ ~timedOut \/ Len(event_queue[e]) < MaxQueue
                /\ Attach(e)
                /\ out' = <<Frame(e, peerEndpoint[e], ControlPacket(HOLE_PUNCH, nextSeqNumber[e]))>>
                /\ connected' = IF timedOut THEN Set(connected, e, FALSE) ELSE connected
                /\ event_queue' =
                      IF timedOut
                      THEN Set(event_queue, e, queueEvent(event_queue[e],
                                   NetworkEventData(ALL_PEERS_DISCONNECTED, "")))
                      ELSE event_queue
                /\ keepAliveTimer' = Set(keepAliveTimer, e,
                      startKeepAliveTimer(running[e], TimerTaken(keepAliveTimer[e])))
    /\ delivered' = <<>>
    /\ UNCHANGED <<current_state, running, elapsed, peerEndpoint, pendingAcks, ioRunning, receiving,
                   completions, posted, sysVars, thrVars, stopped, lastMsgSeq, ssVars>>

(***************************************************************************)
(* The send path of UDPNetwork                                             *)
(***************************************************************************)
\* what async_send_to puts on the wire: nothing once the socket is closed
Emit(e, frames) == IF ioRunning[e] THEN frames ELSE <<>>

\* the return value of UDPNetwork::sendMessage with the size test off by one
sendMessageReturnsTight(e, dataToSend) ==
    running[e] /\ ~(HEADER_SIZE + Len(dataToSend) >= MAX_PACKET_SIZE)

\* the return value of UDPNetwork::sendMessage: false from either early return
sendMessageReturns(e, dataToSend) ==
    running[e] /\ ~(HEADER_SIZE + Len(dataToSend) > MAX_PACKET_SIZE)

\* UDPNetwork::sendMessage, called with dataToSend
sendMessage(e, dataToSend) ==
    LET seq == nextSeqNumber[e]
        accepted == sendMessageReturns(e, dataToSend)
    IN  /\ nextSeqNumber' = IF accepted THEN Set(nextSeqNumber, e, NextSeq(seq)) ELSE nextSeqNumber
        /\ wrapped' = IF accepted THEN Set(wrapped, e, NextSeq(seq) = ToU32(0)) ELSE wrapped
        /\ lastMsgSeq' = IF accepted THEN Set(lastMsgSeq, e, seq) ELSE lastMsgSeq
        /\ pendingAcks' = IF accepted THEN Set(pendingAcks, e, pendingAcks[e] \cup {seq})
                          ELSE pendingAcks
        /\ completions' = IF accepted /\ ioRunning[e]
                          THEN Set(completions, e, completions[e] \cup {seq})
                          ELSE completions
        /\ out' = IF accepted
                  THEN Emit(e, <<Frame(e, peerEndpoint[e], MessagePacket(seq, dataToSend))>>)
                  ELSE <<>>

\* the results a send completion can report
SendErrors == {"success", "would_block", "operation_aborted", "fatal"}

EraseTask(seq) == [kind |-> "erase", seq |-> seq]
DisconnectTask == [kind |-> "disconnect", seq |-> <<>>]

\* handleSendComplete: the send buffer was full
SendBufferFull(error) == error \in {"would_block", "try_again"}

\* handleSendComplete that takes the cancellation of a send for a failure
PostedByAbortToo(seq, error) ==
    IF SendBufferFull(error) THEN {EraseTask(seq)}
    ELSE IF error \in {"operation_aborted", "fatal"} THEN {DisconnectTask}
    ELSE {}

\* handleSendComplete: the handlers it posts to the io context
PostedBy(seq, error) ==
    IF SendBufferFull(error) THEN {EraseTask(seq)}
    ELSE IF error = "fatal" THEN {DisconnectTask}
    ELSE {}

\* UDPNetwork::handleSendComplete for the send of seq, completing with error
HandleSendComplete(e, seq, error) ==
    /\ IoRuns(e)
    /\ seq \in completions[e]
    /\ completions' = Set(completions, e, completions[e] \ {seq})
    /\ posted' = Set(posted, e, posted[e] \cup PostedBy(seq, error))
    /\ out' = <<>>
    /\ delivered' = <<>>
    /\ UNCHANGED <<smVars, running, connected, elapsed, peerEndpoint, nextSeqNumber, pendingAcks,
                   keepAliveTimer, ioRunning, receiving, sysVars, thrVars, ghostVars, ssVars>>

\* a handler that handleSendComplete posted to the io context
RunPosted(e, task) ==
    /\ IoRuns(e)
    /\ task \in posted[e]
    /\ posted' = Set(posted, e, posted[e] \ {task})
    /\ IF task.kind = "erase"
       THEN /\ pendingAcks' = Set(pendingAcks, e, PendingErase(pendingAcks[e], task.seq))
            /\ UNCHANGED <<connected, event_queue>>
       ELSE LET d == handleDisconnect(e, event_queue[e])
            IN  /\ Len(d.queue) <= MaxQueue
                /\ connected' = Set(connected, e, d.connected)
                /\ event_queue' = Set(event_queue, e, d.queue)
                /\ UNCHANGED pendingAcks
    /\ out' = <<>>
    /\ delivered' = <<>>
    /\ UNCHANGED <<current_state, running, elapsed, peerEndpoint, nextSeqNumber,
                   keepAliveTimer, ioRunning, receiving, completions, sysVars, thrVars, ghostVars, ssVars>>

\* the frames that carry no payload
ControlTypes == {HOLE_PUNCH, ACK, DISCONNECT}

\* a frame of type ptype that e handed to its socket
HandedToSocket(e, ptype) ==
    \E f \in BagToSet(net) : f.src = e /\ PacketTypeOf(f.data) = ptype

\* the completion handlers of the sends of HOLE_PUNCH (sendHolePunchPacket),
\* ACK (processReceivedData) and DISCONNECT (sendDisconnectNotification)
\* frames: they write to the log at most
HandleControlSendComplete(e, ptype, error) ==
    /\ IoRuns(e)
    /\ HandedToSocket(e, ptype)
    /\ out' = <<>>
    /\ delivered' = <<>>
    /\ UNCHANGED <<smVars, netVars, sysVars, thrVars, ghostVars, ssVars>>

(***************************************************************************)
(* The outbound packet bridge of P2PSystem                                 *)
(***************************************************************************)
\* TunInterface::receiveThreadFunc handing one packet to P2PSystem::handlePacketFromTun
HandlePacketFromTun(e, packet) ==
    /\ tun[e] = "processing"
    /\ IF IsIPv4Packet(packet) /\ ForwardsToPeer(e, packet)
       THEN sendMessage(e, packet)
       ELSE /\ out' = <<>>
            /\ UNCHANGED <<nextSeqNumber, wrapped, lastMsgSeq, pendingAcks, completions>>
    /\ delivered' = <<>>
    /\ UNCHANGED <<smVars, running, connected, elapsed, peerEndpoint, keepAliveTimer, ioRunning, receiving,
                   posted, sysVars, thrVars, stopped, ssVars>>

(***************************************************************************)
(* UDPNetwork::stopConnection, run by thread t and returning to label r.   *)
(* sendDisconnectNotification sleeps 50 ms after each of its three sends,  *)
(* so each send is a step of its own.                                      *)
(***************************************************************************)
\* sendDisconnectNotification that does not test the link flag
sendDisconnectNotificationAlways(isConnected) == DisconnectCount

\* UDPNetwork::sendDisconnectNotification: the number of its sends
sendDisconnectNotification(isConnected) == IF isConnected THEN DisconnectCount ELSE 0

\* the call: the test of sendDisconnectNotification, the header, the first send
UscCall(e, t, r) ==
    /\ ret' = SetT(ret, e, t, r)
    /\ IF sendDisconnectNotification(connected[e]) = 0
       THEN /\ pc' = SetT(pc, e, t, "usc_flags")
            /\ out' = <<>>
            /\ NoAttach
            /\ UNCHANGED <<cnt, loc>>
       ELSE LET packet == ControlPacket(DISCONNECT, nextSeqNumber[e])
            IN  /\ pc' = SetT(pc, e, t, "usc_send")
                /\ cnt' = SetT(cnt, e, t, sendDisconnectNotification(connected[e]) - 1)
                /\ loc' = SetT(loc, e, t, packet)
                /\ out' = Emit(e, <<Frame(e, peerEndpoint[e], packet)>>)
                /\ Attach(e)

\* a second and a third send that each take the value of the counter
UscSendRenumbered(e, t) ==
    /\ pc[e][t] = "usc_send"
    /\ out' = Emit(e, <<Frame(e, peerEndpoint[e], ControlPacket(DISCONNECT, nextSeqNumber[e]))>>)
    /\ cnt' = SetT(cnt, e, t, cnt[e][t] - 1)
    /\ pc' = IF cnt[e][t] = 1 THEN SetT(pc, e, t, "usc_flags") ELSE pc
    /\ delivered' = <<>>
    /\ UNCHANGED <<smVars, netVars, sysVars, ret, loc, ghostVars, ssVars>>

\* the second and the third send of the same packet
UscSend(e, t) ==
    /\ pc[e][t] = "usc_send"
    /\ out' = Emit(e, <<Frame(e, peerEndpoint[e], loc[e][t])>>)
    /\ cnt' = SetT(cnt, e, t, cnt[e][t] - 1)
    /\ pc' = IF cnt[e][t] = 1 THEN SetT(pc, e, t, "usc_flags") ELSE pc
    /\ delivered' = <<>>
    /\ UNCHANGED <<smVars, netVars, sysVars, ret, loc, ghostVars, ssVars>>

\* the rest of stopConnection: the flags, the timer, the state
UscFlags(e, t) ==
    /\ pc[e][t] = "usc_flags"
    /\ connected' = Set(connected, e, FALSE)
    /\ running' = Set(running, e, FALSE)
    /\ keepAliveTimer' = Set(keepAliveTimer, e, stopKeepAliveTimer(keepAliveTimer[e]))
    /\ current_state' = Set(current_state, e, setState(current_state[e], IDLE))
    /\ stopped' = Set(stopped, e, TRUE)
    /\ pc' = SetT(pc, e, t, ret[e][t])
    /\ ret' = SetT(ret, e, t, "idle")
    /\ loc' = SetT(loc, e, t, <<>>)
    /\ out' = <<>>
    /\ delivered' = <<>>
    /\ UNCHANGED <<event_queue, elapsed, peerEndpoint, nextSeqNumber, pendingAcks, ioRunning, receiving,
                   completions, posted, sysVars, cnt, lastMsgSeq, wrapped, ssVars>>

\* the rest of stopConnection statement by statement, for the frames that
\* are received between its two stores: peerConnection.setConnected(false)
UscLink(e, t) ==
    /\ pc[e][t] = "usc_flags"
    /\ connected' = Set(connected, e, FALSE)
    /\ pc' = SetT(pc, e, t, "usc_running")
    /\ out' = <<>>
    /\ delivered' = <<>>
    /\ UNCHANGED <<smVars, running, elapsed, peerEndpoint, nextSeqNumber, pendingAcks,
                   keepAliveTimer, ioRunning, receiving, completions, posted, sysVars, cnt, ret, loc,
                   ghostVars, ssVars>>

\* running = false, stopKeepAliveTimer(), setState(IDLE)
UscRunning(e, t) ==
    /\ pc[e][t] = "usc_running"
    /\ running' = Set(running, e, FALSE)
    /\ keepAliveTimer' = Set(keepAliveTimer, e, stopKeepAliveTimer(keepAliveTimer[e]))
    /\ current_state' = Set(current_state, e, setState(current_state[e], IDLE))
    /\ stopped' = Set(stopped, e, TRUE)
    /\ pc' = SetT(pc, e, t, ret[e][t])
    /\ ret' = SetT(ret, e, t, "idle")
    /\ loc' = SetT(loc, e, t, <<>>)
    /\ out' = <<>>
    /\ delivered' = <<>>
    /\ UNCHANGED <<event_queue, connected, elapsed, peerEndpoint, nextSeqNumber, pendingAcks,
                   ioRunning, receiving, completions, posted, sysVars, cnt, lastMsgSeq, wrapped, ssVars>>

(***************************************************************************)
(* P2PSystem::stopConnection, run by the CLI thread or by the monitor      *)
(***************************************************************************)
\* P2PSystem::stopNetworkInterface: the tunnel it leaves
stopNetworkInterfaceTun(tn) == IF tn = "processing" THEN "ready" ELSE tn

\* P2PSystem::stopNetworkInterface: the applier's configuration it leaves
stopNetworkInterfaceCfg(tn, cfg) == IF tn = "processing" THEN FALSE ELSE cfg

\* where P2PSystem::stopConnection returns to
AfterStop(t) == IF t = "mon" THEN "drain" ELSE "idle"

\* after networkModule->stopConnection(): the tunnel, the peer fields, the state
PscRest(e, t) ==
    /\ pc[e][t] = "psc_rest"
    /\ tun' = Set(tun, e, stopNetworkInterfaceTun(tun[e]))
    /\ configured' = Set(configured, e, stopNetworkInterfaceCfg(tun[e], configured[e]))
    /\ current_state' = Set(current_state, e, setState(current_state[e], IDLE))
    /\ pc' = SetT(pc, e, t, AfterStop(t))
    /\ out' = <<>>
    /\ delivered' = <<>>
    /\ UNCHANGED <<event_queue, netVars, sysRunning, isHost, localVirtualIp, peerVirtualIp,
                   pendingRequest, netModule, monitor, exiting, cnt, ret, loc, ghostVars, ssVars>>

\* the fields of e that stopConnection works on, and the frames sent so far
StopFields(e) ==
    [connected |-> connected[e], running |-> running[e], timer |-> keepAliveTimer[e],
     acks |-> pendingAcks[e], tun |-> tun[e], configured |-> configured[e],
     state |-> current_state[e], queue |-> event_queue[e], frames |-> 0]

\* UDPNetwork::stopConnection run from its call to its return on the fields s
UdpStopConnection(s) ==
    [s EXCEPT !.frames = s.frames + sendDisconnectNotification(s.connected),
              !.connected = FALSE,
              !.running = FALSE,
              !.timer = stopKeepAliveTimer(s.timer),
              !.state = setState(s.state, IDLE)]

\* P2PSystem::stopConnection run from its call to its return on the fields s
SysStopConnection(s) ==
    LET u == UdpStopConnection(s)
    IN  [u EXCEPT !.tun = stopNetworkInterfaceTun(u.tun),
                  !.configured = stopNetworkInterfaceCfg(u.tun, u.configured),
                  !.state = setState(u.state, IDLE)]

(***************************************************************************)
(* The main thread: P2PSystem::initialize, then shutdown, then the         *)
(* destructor, which calls shutdown again                                  *)
(***************************************************************************)
InitOutcomes == {"stun_failed", "signaling_failed", "tun_failed", "listen_failed", "ok"}

\* the steps of P2PSystem::initialize in the order of the code: STUN
\* discovery, signaling connect and register, tunnel initialization,
\* transport construction and startListening, monitor start
InitSteps == <<"stun", "signaling", "tun", "listen", "monitor">>

\* P2PSystem::initialize that goes on after a step failed
initializeGoesOn(outcome) == Len(InitSteps)

\* P2PSystem::initialize: the number of steps completed when it returns
initialize(outcome) ==
    CASE outcome = "stun_failed" -> 0
      [] outcome = "signaling_failed" -> 1
      [] outcome = "tun_failed" -> 2
      [] outcome = "listen_failed" -> 3
      [] OTHER -> Len(InitSteps)

\* P2PSystem::initialize ending with the given outcome
Initialize(e, outcome) ==
    /\ pc[e]["main"] = "start"
    /\ sysRunning' = Set(sysRunning, e, TRUE)
    /\ current_state' = Set(current_state, e, setState(current_state[e], IDLE))
    /\ tun' = Set(tun, e, CASE initialize(outcome) < 2 -> "none"
                            [] initialize(outcome) = 2 -> "closed"
                            [] OTHER -> "ready")
    /\ netModule' = Set(netModule, e, initialize(outcome) >= 3)
    /\ running' = Set(running, e, initialize(outcome) >= 4)
    /\ ioRunning' = Set(ioRunning, e, initialize(outcome) >= 4)
    /\ receiving' = Set(receiving, e, initialize(outcome) >= 4)
    /\ monitor' = Set(monitor, e, IF initialize(outcome) = Len(InitSteps) THEN "running" ELSE "none")
    /\ pc' = SetT(pc, e, "main", IF outcome = "ok" THEN "up" ELSE "failed")
    /\ out' = <<>>
    /\ delivered' = <<>>
    /\ UNCHANGED <<event_queue, connected, elapsed, peerEndpoint, nextSeqNumber, pendingAcks,
                   keepAliveTimer, completions, posted, isHost, localVirtualIp, peerVirtualIp,
                   pendingRequest, configured, exiting, cnt, ret, loc, ghostVars, ssVars>>

\* P2PSystem::shutdown, its first statement: if (isConnected()) stopConnection
ShutdownBegin(e) ==
    /\ pc[e]["main"] \in {"up", "failed", "down"}
    /\ exiting' = Set(exiting, e, pc[e]["main"] # "up")
    /\ IF netModule[e] /\ connected[e]
       THEN UscCall(e, "main", "sd_state")
       ELSE /\ pc' = SetT(pc, e, "main", "sd_state")
            /\ out' = <<>>
            /\ NoAttach
            /\ UNCHANGED <<cnt, ret, loc>>
    /\ delivered' = <<>>
    /\ UNCHANGED <<smVars, running, connected, elapsed, peerEndpoint, pendingAcks, keepAliveTimer,
                   ioRunning, receiving, completions, posted, sysRunning, isHost, localVirtualIp,
                   peerVirtualIp, pendingRequest, tun, netModule, configured, monitor,
                   stopped, lastMsgSeq, ssVars>>

\* running = false, setState(SHUTTING_DOWN), stopNetworkInterface() and
\* tunInterface->close(), which dereferences tunInterface unchecked: with null
\* the behaviour is undefined, the process dies (crash) or goes on
ShutdownState(e, t, crash) ==
    /\ pc[e][t] = "sd_state"
    /\ crash => tun[e] = "none"
    /\ sysRunning' = Set(sysRunning, e, FALSE)
    /\ current_state' = Set(current_state, e, setState(current_state[e], SHUTTING_DOWN))
    /\ tun' = Set(tun, e, IF tun[e] = "none" THEN "none" ELSE "closed")
    /\ configured' = Set(configured, e, stopNetworkInterfaceCfg(tun[e], configured[e]))
    /\ pc' = IF crash THEN SetT(pc, e, "main", "crashed") ELSE SetT(pc, e, t, "sd_net")
    /\ out' = <<>>
    /\ delivered' = <<>>
    /\ UNCHANGED <<event_queue, netVars, isHost, localVirtualIp, peerVirtualIp, pendingRequest,
                   netModule, monitor, exiting, cnt, ret, loc, ghostVars, ssVars>>

\* networkModule->shutdown(), its first statement: if connected, stopConnection
ShutdownNet(e, t) ==
    /\ pc[e][t] = "sd_net"
    /\ IF netModule[e] /\ connected[e]
       THEN UscCall(e, t, "sd_net2")
       ELSE /\ pc' = SetT(pc, e, t, "sd_net2")
            /\ out' = <<>>
            /\ NoAttach
            /\ UNCHANGED <<cnt, ret, loc>>
    /\ delivered' = <<>>
    /\ UNCHANGED <<smVars, running, connected, elapsed, peerEndpoint, pendingAcks, keepAliveTimer,
                   ioRunning, receiving, completions, posted, sysVars, stopped, lastMsgSeq, ssVars>>

\* the rest of UDPNetwork::shutdown, then the second close of the tunnel and
\* signalingClient.disconnect()
ShutdownNet2(e, t) ==
    /\ pc[e][t] = "sd_net2"
    /\ running' = IF netModule[e] THEN Set(running, e, FALSE) ELSE running
    /\ connected' = IF netModule[e] THEN Set(connected, e, FALSE) ELSE connected
    /\ current_state' = IF netModule[e]
                        THEN Set(current_state, e, setState(current_state[e], SHUTTING_DOWN))
                        ELSE current_state
    /\ keepAliveTimer' = IF netModule[e]
                         THEN Set(keepAliveTimer, e, stopKeepAliveTimer(keepAliveTimer[e]))
                         ELSE keepAliveTimer
    /\ ioRunning' = Set(ioRunning, e, FALSE)
    /\ receiving' = Set(receiving, e, FALSE)
    /\ tun' = Set(tun, e, IF tun[e] = "none" THEN "none" ELSE "closed")
    /\ pc' = SetT(pc, e, t, "sd_join")
    /\ out' = <<>>
    /\ delivered' = <<>>
    /\ UNCHANGED <<event_queue, elapsed, peerEndpoint, nextSeqNumber, pendingAcks, completions,
                   posted, sysRunning, isHost, localVirtualIp, peerVirtualIp, pendingRequest,
                   netModule, configured, monitor, exiting, cnt, ret, loc, ghostVars, ssVars>>

\* if (monitorThread.joinable()) monitorThread.join(), and the return
ShutdownJoin(e) ==
    /\ pc[e]["main"] = "sd_join"
    /\ monitor[e] # "running"
    /\ monitor' = Set(monitor, e, IF monitor[e] = "exited" THEN "joined" ELSE monitor[e])
    /\ pc' = SetT(pc, e, "main", IF exiting[e] THEN "exit" ELSE "down")
    /\ out' = <<>>
    /\ delivered' = <<>>
    /\ UNCHANGED <<smVars, netVars, sysRunning, isHost, localVirtualIp, peerVirtualIp,
                   pendingRequest, tun, netModule, configured, exiting, cnt, ret, loc,
                   ghostVars, ssVars>>

(***************************************************************************)
(* The monitor thread: the lambda of P2PSystem::initialize, monitorLoop    *)
(* and handleNetworkEvent                                                  *)
(***************************************************************************)
\* while (running && !isInState(SHUTTING_DOWN)): enter monitorLoop or finish
MonitorCheck(e) ==
    /\ monitor[e] = "running"
    /\ pc[e]["mon"] = "idle"
    /\ IF sysRunning[e] /\ current_state[e] # SHUTTING_DOWN
       THEN /\ pc' = SetT(pc, e, "mon", "drain")
            /\ UNCHANGED monitor
       ELSE /\ pc' = SetT(pc, e, "mon", "done")
            /\ monitor' = Set(monitor, e, "exited")
    /\ out' = <<>>
    /\ delivered' = <<>>
    /\ UNCHANGED <<smVars, netVars, sysRunning, isHost, localVirtualIp, peerVirtualIp,
                   pendingRequest, tun, netModule, configured, exiting, cnt, ret, loc,
                   ghostVars, ssVars>>

\* monitorLoop finds the queue empty: back to the sleep of 250 ms
MonitorSleep(e) ==
    /\ monitor[e] = "running"
    /\ pc[e]["mon"] = "drain"
    /\ event_queue[e] = <<>>
    /\ pc' = SetT(pc, e, "mon", "idle")
    /\ out' = <<>>
    /\ delivered' = <<>>
    /\ UNCHANGED <<smVars, netVars, sysVars, cnt, ret, loc, ghostVars, ssVars>>

\* P2PSystem::startNetworkInterface without the test of isConnected()
CanStartNetworkInterfaceUnlinked(e) ==
    /\ current_state[e] = CONNECTING
    /\ tun[e] = "ready"

\* P2PSystem::startNetworkInterface succeeds
CanStartNetworkInterface(e) ==
    /\ netModule[e] /\ connected[e]
    /\ current_state[e] = CONNECTING
    /\ tun[e] = "ready"

\* monitorLoop takes the next event and handleNetworkEvent handles it
MonitorHandle(e) ==
    /\ monitor[e] = "running"
    /\ pc[e]["mon"] = "drain"
    /\ event_queue[e] # <<>>
    /\ LET got == getNextEvent(event_queue[e])
           ev == got.event.event
           currentState == current_state[e]
       IN  /\ event_queue' = Set(event_queue, e, got.rest)
           /\ CASE ev = PEER_CONNECTED /\ currentState = CONNECTING /\ CanStartNetworkInterface(e) ->
                     /\ tun' = Set(tun, e, "processing")
                     /\ current_state' = Set(current_state, e, setState(current_state[e], CONNECTED))
                     /\ out' = <<>>
                     /\ NoAttach
                     /\ UNCHANGED <<pc, cnt, ret, loc>>
                [] ev = PEER_CONNECTED /\ currentState = CONNECTING /\ ~CanStartNetworkInterface(e) ->
                     /\ UscCall(e, "mon", "psc_rest")
                     /\ UNCHANGED <<tun, current_state>>
                [] ev = ALL_PEERS_DISCONNECTED /\ currentState = CONNECTED ->
                     /\ UscCall(e, "mon", "psc_rest")
                     /\ UNCHANGED <<tun, current_state>>
                [] ev = SHUTDOWN_REQUESTED ->
                     /\ IF netModule[e] /\ connected[e]
                        THEN UscCall(e, "mon", "sd_state")
                        ELSE /\ pc' = SetT(pc, e, "mon", "sd_state")
                             /\ out' = <<>>
                             /\ NoAttach
                             /\ UNCHANGED <<cnt, ret, loc>>
                     /\ UNCHANGED <<tun, current_state>>
                [] OTHER ->
                     /\ out' = <<>>
                     /\ NoAttach
                     /\ UNCHANGED <<pc, cnt, ret, loc, tun, current_state>>
    /\ delivered' = <<>>
    /\ UNCHANGED <<running, connected, elapsed, peerEndpoint, pendingAcks, keepAliveTimer,
                   ioRunning, receiving, completions, posted, sysRunning, isHost, localVirtualIp,
                   peerVirtualIp, pendingRequest, netModule, configured, monitor, exiting,
                   stopped, lastMsgSeq, ssVars>>

\* what monitorThread.join() called on the monitor thread itself ends in:
\* std::system_error (resource_deadlock_would_occur) leaves the thread's
\* function and std::terminate ends the process, or the thread waits for
\* itself
SelfJoinOutcomes == {"terminate", "blocked"}

\* P2PSystem::shutdown run by the monitor thread reaches
\* if (monitorThread.joinable()) monitorThread.join()
MonitorSelfJoin(e, outcome) ==
    /\ monitor[e] = "running"
    /\ pc[e]["mon"] = "sd_join"
    /\ pc' = IF outcome = "terminate"
             THEN [pc EXCEPT ![e]["main"] = "crashed", ![e]["mon"] = "self_join"]
             ELSE SetT(pc, e, "mon", "self_join")
    /\ out' = <<>>
    /\ delivered' = <<>>
    /\ UNCHANGED <<smVars, netVars, sysVars, cnt, ret, loc, ghostVars, ssVars>>

\* SystemStateManager::queueEvent called with SHUTDOWN_REQUESTED, the
\* external shutdown trigger
QueueShutdownRequest(e) ==
    /\ monitor[e] = "running"
    /\ Len(event_queue[e]) < MaxQueue
    /\ event_queue' = Set(event_queue, e,
                          queueEvent(event_queue[e], [event |-> SHUTDOWN_REQUESTED, data |-> ""]))
    /\ out' = <<>>
    /\ delivered' = <<>>
    /\ UNCHANGED <<current_state, netVars, sysVars, thrVars, ghostVars, ssVars>>

(***************************************************************************)
(* The CLI input thread of main.cpp: /connect, /accept, /disconnect        *)
(***************************************************************************)
\* the input thread exists: initialize succeeded, main has not joined it
CliRuns(e) == monitor[e] # "none" /\ ~exiting[e] /\ pc[e]["main"] # "down"

\* P2PSystem::connectToPeer
CliConnectToPeer(e) ==
    /\ CliRuns(e)
    /\ pc[e]["cli"] = "idle"
    /\ IF netModule[e] /\ connected[e]
       THEN UNCHANGED <<isHost, current_state, stopped>>
       ELSE /\ isHost' = Set(isHost, e, FALSE)
            /\ current_state' = Set(current_state, e, setState(current_state[e], CONNECTING))
            /\ stopped' = Set(stopped, e, FALSE)
    /\ out' = <<>>
    /\ delivered' = <<>>
    /\ UNCHANGED <<event_queue, netVars, sysRunning, localVirtualIp, peerVirtualIp,
                   pendingRequest, tun, netModule, configured, monitor, exiting, thrVars,
                   lastMsgSeq, wrapped, ssVars>>

\* P2PSystem::acceptIncomingRequest
CliAccept(e) ==
    /\ CliRuns(e)
    /\ pc[e]["cli"] = "idle"
    /\ pendingRequest[e]
    /\ isHost' = Set(isHost, e, TRUE)
    /\ pendingRequest' = Set(pendingRequest, e, FALSE)
    /\ out' = <<>>
    /\ delivered' = <<>>
    /\ UNCHANGED <<smVars, netVars, sysRunning, localVirtualIp, peerVirtualIp, tun, netModule,
                   configured, monitor, exiting, thrVars, ghostVars, ssVars>>

\* /disconnect: P2PSystem::stopConnection is entered
CliStopConnection(e) ==
    /\ CliRuns(e)
    /\ pc[e]["cli"] = "idle"
    /\ UscCall(e, "cli", "psc_rest")
    /\ delivered' = <<>>
    /\ UNCHANGED <<smVars, running, connected, elapsed, peerEndpoint, pendingAcks, keepAliveTimer,
                   ioRunning, receiving, completions, posted, sysVars, stopped, lastMsgSeq, ssVars>>

(***************************************************************************)
(* The signaling worker: the chat-request and chat-init callbacks          *)
(***************************************************************************)
\* the WebSocket is connected: from initialize to signalingClient.disconnect()
SignalingOn(e) ==
    /\ monitor[e] # "none"
    /\ ~exiting[e]
    /\ pc[e]["main"] \notin {"sd_join", "down"}

\* P2PSystem::handleConnectionRequest
SigChatRequest(e) ==
    /\ SignalingOn(e)
    /\ pc[e]["sig"] = "idle"
    /\ ~pendingRequest[e]
    /\ pendingRequest' = Set(pendingRequest, e, TRUE)
    /\ out' = <<>>
    /\ delivered' = <<>>
    /\ UNCHANGED <<smVars, netVars, sysRunning, isHost, localVirtualIp, peerVirtualIp, tun,
                   netModule, configured, monitor, exiting, thrVars, ghostVars, ssVars>>

\* P2PSystem::assignIPAddresses that takes the joining side's addresses
\* whatever isHost says
assignIPAddressesAsClient(host) == [localVirtualIp |-> CLIENT_IP, peerVirtualIp |-> HOST_IP]

\* P2PSystem::assignIPAddresses
assignIPAddresses(host) ==
    IF host THEN [localVirtualIp |-> HOST_IP, peerVirtualIp |-> CLIENT_IP]
    ELSE [localVirtualIp |-> CLIENT_IP, peerVirtualIp |-> HOST_IP]

\* what the netsh commands of setupRouting report: the address, the subnet
\* route, the route to the peer that is tried when the subnet route fails, and
\* the forwarding
NetshResults == [address : BOOLEAN, route : BOOLEAN, peerRoute : BOOLEAN, forwarding : BOOLEAN]

\* NetworkConfigManager::setupRouting: a route that cannot be added is logged
\* and the function goes on
setupRouting(r) == r.address /\ r.forwarding

\* NetworkConfigManager::configureInterface
configureInterface(r) == setupRouting(r)

\* what configureInterface can report to handleConnectionInit
ConfigureOutcomes == { configureInterface(r) : r \in NetshResults }

\* where handleConnectionInit goes after configureInterface
AfterConfigure(ok) == IF ok THEN "ci_connect" ELSE "idle"

\* P2PSystem::handleConnectionInit up to and including configureInterface,
\* which reports ok
SigChatInit(e, ip, ok) ==
    /\ SignalingOn(e)
    /\ pc[e]["sig"] = "idle"
    /\ current_state' = Set(current_state, e, setState(current_state[e], CONNECTING))
    /\ localVirtualIp' = Set(localVirtualIp, e, assignIPAddresses(isHost[e]).localVirtualIp)
    /\ peerVirtualIp' = Set(peerVirtualIp, e, assignIPAddresses(isHost[e]).peerVirtualIp)
    /\ configured' = Set(configured, e, ok)
    /\ pc' = SetT(pc, e, "sig", AfterConfigure(ok))
    /\ loc' = SetT(loc, e, "sig", IF ok THEN <<ip>> ELSE <<>>)
    /\ stopped' = Set(stopped, e, FALSE)
    /\ out' = <<>>
    /\ delivered' = <<>>
    /\ UNCHANGED <<event_queue, netVars, sysRunning, isHost, pendingRequest, tun, netModule,
                   monitor, exiting, cnt, ret, lastMsgSeq, wrapped, ssVars>>

\* UDPNetwork::connectToPeer that does not test the link flag
connectToPeerAnyway(e, ip) ==
    [result |-> TRUE, peerEndpoint |-> ip, running |-> TRUE,
     state |-> setState(current_state[e], CONNECTING), punching |-> TRUE]

\* UDPNetwork::connectToPeer(ip, port) on the transport of e: what it returns,
\* the endpoint, the flag and the state it leaves, and whether it entered
\* startHolePunchingProcess
connectToPeer(e, ip) ==
    IF connected[e]
    THEN [result |-> FALSE, peerEndpoint |-> peerEndpoint[e], running |-> running[e],
          state |-> current_state[e], punching |-> FALSE]
    ELSE [result |-> TRUE, peerEndpoint |-> ip, running |-> TRUE,
          state |-> setState(current_state[e], CONNECTING), punching |-> TRUE]

\* handleConnectionInit after connectToPeer returned result with the state s
AfterConnectToPeer(result, s) == IF result THEN s ELSE setState(s, IDLE)

\* handleConnectionInit calls UDPNetwork::connectToPeer: the call up to the
\* first hole punch of startHolePunchingProcess, or the call that returns false
\* and the setState(IDLE) that follows it
SigConnectToPeer(e) ==
    /\ pc[e]["sig"] = "ci_connect"
    /\ stopped' = Set(stopped, e, FALSE)
    /\ LET c == connectToPeer(e, loc[e]["sig"][1])
       IN  /\ peerEndpoint' = Set(peerEndpoint, e, c.peerEndpoint)
           /\ running' = Set(running, e, c.running)
           /\ current_state' = Set(current_state, e, AfterConnectToPeer(c.result, c.state))
           /\ loc' = SetT(loc, e, "sig", <<>>)
           /\ IF c.punching
              THEN /\ pc' = SetT(pc, e, "sig", "hp_train")
                   /\ cnt' = SetT(cnt, e, "sig", HolePunchCount - 1)
                   /\ out' = Emit(e, <<Frame(e, c.peerEndpoint,
                                             ControlPacket(HOLE_PUNCH, nextSeqNumber[e]))>>)
                   /\ Attach(e)
              ELSE /\ pc' = SetT(pc, e, "sig", "idle")
                   /\ out' = <<>>
                   /\ NoAttach
                   /\ UNCHANGED cnt
    /\ delivered' = <<>>
    /\ UNCHANGED <<event_queue, connected, elapsed, pendingAcks, keepAliveTimer, ioRunning, receiving,
                   completions, posted, sysVars, ret, lastMsgSeq, ssVars>>

\* startHolePunchingProcess: the second to the fifth sendHolePunchPacket
SigHolePunch(e) ==
    /\ pc[e]["sig"] = "hp_train"
    /\ out' = Emit(e, <<Frame(e, peerEndpoint[e], ControlPacket(HOLE_PUNCH, nextSeqNumber[e]))>>)
    /\ Attach(e)
    /\ cnt' = SetT(cnt, e, "sig", cnt[e]["sig"] - 1)
    /\ pc' = IF cnt[e]["sig"] = 1 THEN SetT(pc, e, "sig", "hp_timer") ELSE pc
    /\ delivered' = <<>>
    /\ UNCHANGED <<smVars, running, connected, elapsed, peerEndpoint, pendingAcks, keepAliveTimer,
                   ioRunning, receiving, completions, posted, sysVars, ret, loc, stopped, lastMsgSeq, ssVars>>

\* startHolePunchingProcess: startKeepAliveTimer after the last sleep
SigStartTimer(e) ==
    /\ pc[e]["sig"] = "hp_timer"
    /\ keepAliveTimer' = Set(keepAliveTimer, e, startKeepAliveTimer(running[e], keepAliveTimer[e]))
    /\ pc' = SetT(pc, e, "sig", "idle")
    /\ out' = <<>>
    /\ delivered' = <<>>
    /\ UNCHANGED <<smVars, running, connected, elapsed, peerEndpoint, nextSeqNumber, pendingAcks,
                   ioRunning, receiving, completions, posted, sysVars, cnt, ret, loc, ghostVars, ssVars>>

(***************************************************************************)
(* Time: KeepAliveSec seconds pass.  A pending wait of the keep-alive      *)
(* timer expires; an expired handler runs before more time passes.         *)
(* last_activity_ is read by hasTimedOut alone, which is false while the   *)
(* link is down, and setConnected(true) renews it: the seconds are counted *)
(* while the link is up.                                                   *)
(***************************************************************************)
TimerExpires(tm) == IF tm = "armed" THEN "fired" ELSE tm

Min(a, b) == IF a < b THEN a ELSE b

AdvanceTime ==
    /\ \A e \in Ends : keepAliveTimer[e] \notin {"fired", "fired+armed"}
    /\ elapsed' = [e \in Ends |-> IF connected[e]
                                THEN Min(elapsed[e] + KeepAliveSec, ElapsedCap)
                                ELSE elapsed[e]]
    /\ keepAliveTimer' = [e \in Ends |-> TimerExpires(keepAliveTimer[e])]
    /\ out' = <<>>
    /\ delivered' = <<>>
    /\ UNCHANGED <<smVars, running, connected, peerEndpoint, nextSeqNumber, pendingAcks,
                   ioRunning, receiving, completions, posted, sysVars, thrVars, ghostVars, ssVars>>

(***************************************************************************)
(* One endpoint and its surroundings.  The program's own steps are always  *)
(* offered; a specification chooses what the surroundings do: the outcome  *)
(* of initialize, the commands typed, the callbacks of the signaling       *)
(* server, the datagrams that reach the socket, the passing of time.       *)
(***************************************************************************)
\* the process of e exists: main has neither died nor left its destructor
Alive(e) == pc[e]["main"] \notin {"crashed", "exit"}

\* the headers e has attached since Init, where the counter of a
\* specification that examines the wrap starts WrapLead below it, stay below k
SeqWithin(e, k) ==
    LET used == AddU32(nextSeqNumber[e], WrapLead)
    IN  used[1] = 0 /\ used[2] < k + WrapLead

\* the frames of bag b on their way to endpoint e
ToEnd(b, e) == [f \in {g \in DOMAIN b : g.dst = e} |-> b[f]]

\* the network takes frame f: its destination has an open socket and fewer
\* than MaxInFlight frames on their way to it; any other frame is lost
Accepts(b, f) ==
    /\ f.dst \in Ends
    /\ ioRunning[f.dst]
    /\ BagCardinality(ToEnd(b, f.dst)) < MaxInFlight

RECURSIVE Carry(_, _)
Carry(b, frames) ==
    IF frames = <<>> THEN b
    ELSE Carry(IF Accepts(b, Head(frames)) THEN b (+) SetToBag({Head(frames)}) ELSE b,
               Tail(frames))

\* the buffers the payloads ds put on the tunnel's queue of e:
\* TunInterface::sendPacket, outgoingPackets.push
RECURSIVE Pushed(_, _)
Pushed(e, ds) ==
    IF ds = <<>> THEN <<>>
    ELSE (IF Head(ds).to = e THEN Head(ds).toTun ELSE <<>>) \o Pushed(e, Tail(ds))

\* a queue whose push puts the buffer at the front
TunQueueAfterAtFront(e) ==
    IF outgoingPackets[e] = Unfollowed THEN Unfollowed
    ELSE IF tun[e] = "processing" /\ tun'[e] # "processing"
    THEN <<>>
    ELSE Pushed(e, delivered') \o outgoingPackets[e]

\* TunInterface::outgoingPackets of e after a step of the program:
\* stopPacketProcessing empties it, sendPacket pushes at its back
TunQueueAfter(e) ==
    IF outgoingPackets[e] = Unfollowed THEN Unfollowed
    ELSE IF tun[e] = "processing" /\ tun'[e] # "processing"
    THEN <<>>
    ELSE outgoingPackets[e] \o Pushed(e, delivered')

\* the payloads a step hands to the tunnel enter its queue
Bridge ==
    /\ outgoingPackets' = [e \in Ends |-> TunQueueAfter(e)]
    /\ wintun' = <<>>

\* TunInterface::sendThreadFunc: one turn of the loop that finds a packet,
\* takes it from the front of the queue and writes it to the adapter
SendThreadFunc(e) ==
    /\ tun[e] = "processing"
    /\ outgoingPackets[e] # Unfollowed
    /\ outgoingPackets[e] # <<>>
    /\ outgoingPackets' = Set(outgoingPackets, e, Tail(outgoingPackets[e]))
    /\ wintun' = <<[at |-> e, packet |-> Head(outgoingPackets[e])]>>
    /\ out' = <<>>
    /\ delivered' = <<>>
    /\ UNCHANGED <<smVars, netVars, sysVars, thrVars, net, ghostVars, ssVars>>

\* the frames a step hands to the socket enter the network
Transmit == net' = Carry(net, out') /\ Bridge

\* the steps the program takes by itself
MainShutdownState(e) ==
    \E crash \in BOOLEAN : Alive(e) /\ ShutdownState(e, "main", crash) /\ Transmit
MainShutdownNet(e) == Alive(e) /\ ShutdownNet(e, "main") /\ Transmit
MainShutdownNet2(e) == Alive(e) /\ ShutdownNet2(e, "main") /\ Transmit
MainShutdownJoin(e) == Alive(e) /\ ShutdownJoin(e) /\ Transmit
MonShutdownState(e) ==
    \E crash \in BOOLEAN : Alive(e) /\ ShutdownState(e, "mon", crash) /\ Transmit
MonShutdownNet(e) == Alive(e) /\ ShutdownNet(e, "mon") /\ Transmit
MonShutdownNet2(e) == Alive(e) /\ ShutdownNet2(e, "mon") /\ Transmit
MonSelfJoin(e) ==
    \E outcome \in SelfJoinOutcomes : Alive(e) /\ MonitorSelfJoin(e, outcome) /\ Transmit
ShutdownRequest(e) == Alive(e) /\ QueueShutdownRequest(e) /\ Transmit
TunSend(e) == Alive(e) /\ SendThreadFunc(e)
StopSend(e) == \E t \in Threads : Alive(e) /\ UscSend(e, t) /\ Transmit
StopFlags(e) == \E t \in Threads : Alive(e) /\ UscFlags(e, t) /\ Transmit
StopRest(e) == \E t \in {"cli", "mon"} : Alive(e) /\ PscRest(e, t) /\ Transmit
StopLink(e) == \E t \in Threads : Alive(e) /\ UscLink(e, t) /\ Transmit
StopRunning(e) == \E t \in Threads : Alive(e) /\ UscRunning(e, t) /\ Transmit
MonCheck(e) == Alive(e) /\ MonitorCheck(e) /\ Transmit
MonSleep(e) == Alive(e) /\ MonitorSleep(e) /\ Transmit
MonHandle(e) == Alive(e) /\ MonitorHandle(e) /\ Transmit
ChatConnect(e) == Alive(e) /\ SigConnectToPeer(e) /\ Transmit
HolePunchTrain(e) == Alive(e) /\ SigHolePunch(e) /\ Transmit
HolePunchTimer(e) == Alive(e) /\ SigStartTimer(e) /\ Transmit
KeepAlive(e) == Alive(e) /\ HandleKeepAlive(e) /\ Transmit
PostedHandler(e) == \E task \in posted[e] : Alive(e) /\ RunPosted(e, task) /\ Transmit

\* what the surroundings do
MainInitialize(e, outcomes) ==
    \E o \in outcomes : Alive(e) /\ Initialize(e, o) /\ Transmit
\* /quit or SIGINT, and the destructor after main returned
MainShutdownBegin(e) == Alive(e) /\ ShutdownBegin(e) /\ Transmit
CliConnect(e) == Alive(e) /\ CliConnectToPeer(e) /\ Transmit
CliAcceptRequest(e) == Alive(e) /\ CliAccept(e) /\ Transmit
CliDisconnect(e, k) ==
    /\ Alive(e)
    /\ connected[e] => SeqWithin(e, k)
    /\ CliStopConnection(e)
    /\ Transmit
ChatRequest(e) == Alive(e) /\ SigChatRequest(e) /\ Transmit
ChatInit(e, k, outcomes) ==
    \E ok \in outcomes :
        Alive(e) /\ SeqWithin(e, k) /\ SigChatInit(e, Peer(e), ok) /\ Transmit
\* chat-init once both clients have started and registered with the server
ChatInitBoth(e, k) ==
    /\ \A x \in Ends : netModule[x]
    /\ Alive(e)
    /\ SeqWithin(e, k)
    /\ SigChatInit(e, Peer(e), TRUE)
    /\ Transmit
\* a frame in flight reaches the socket of e
Deliver(e) ==
    \E f \in BagToSet(net) :
        /\ f.dst = e
        /\ Alive(e)
        /\ HandleReceiveFrom(e, f.data, f.src)
        /\ net' = Carry(net (-) SetToBag({f}), out')
        /\ Bridge
\* a datagram of surroundings that are not modelled reaches the socket of e
Receive(e, senders, datagrams, k) ==
    \E sender \in senders : \E data \in datagrams :
        /\ Alive(e)
        /\ PacketTypeOf(data) = MESSAGE => SeqWithin(e, k)
        /\ HandleReceiveFrom(e, data, sender)
        /\ Transmit
\* a receive of e completes with an error
ReceiveError(e, errors) ==
    \E error \in errors : Alive(e) /\ HandleReceiveError(e, error) /\ Transmit
ControlSendComplete(e, errors) ==
    \E ptype \in ControlTypes, error \in errors :
        Alive(e) /\ HandleControlSendComplete(e, ptype, error) /\ Transmit
SendComplete(e, errors) ==
    \E seq \in completions[e], error \in errors :
        Alive(e) /\ HandleSendComplete(e, seq, error) /\ Transmit
TunReceive(e, k) ==
    \E packet \in TunPackets :
        Alive(e) /\ SeqWithin(e, k) /\ HandlePacketFromTun(e, packet) /\ Transmit
\* the tunnel hands over a packet once the send before it has completed
TunReceiveNext(e, k) ==
    \E packet \in TunPackets :
        /\ Alive(e)
        /\ SeqWithin(e, k)
        /\ completions[e] = {} /\ posted[e] = {}
        /\ HandlePacketFromTun(e, packet)
        /\ Transmit
\* the tunnel hands over a buffer of any content, the hole punching over
TunReceiveAny(e, k) ==
    \E packet \in BridgePackets :
        /\ Alive(e)
        /\ SeqWithin(e, k)
        /\ pc[e]["sig"] = "idle"
        /\ HandlePacketFromTun(e, packet)
        /\ Transmit
\* the tunnel hands over a packet of the largest sizes
TunReceiveLarge(e, k) ==
    \E packet \in LargeTunPackets :
        Alive(e) /\ SeqWithin(e, k) /\ HandlePacketFromTun(e, packet) /\ Transmit
Tick(e, k) ==
    /\ Alive(e)
    /\ keepAliveTimer[e] = "armed" => SeqWithin(e, k)
    /\ AdvanceTime
    /\ Transmit

(***************************************************************************)
(* Spec: the supervisor from initialize to the end of the destructor.  The *)
(* signaling server starts connections, the peer's frames arrive, the user *)
(* quits at any moment.                                                    *)
(***************************************************************************)
ControlDatagrams == { ControlPacket(HOLE_PUNCH, ToU32(0)), ControlPacket(DISCONNECT, ToU32(0)) }

Next ==
    \/ MainInitialize("A", InitOutcomes)
    \/ MainShutdownBegin("A")
    \/ MainShutdownState("A")
    \/ MainShutdownNet("A")
    \/ MainShutdownNet2("A")
    \/ MainShutdownJoin("A")
    \/ StopSend("A")
    \/ StopFlags("A")
    \/ StopRest("A")
    \/ MonCheck("A")
    \/ MonSleep("A")
    \/ MonHandle("A")
    \/ ChatInit("A", MaxSeq, ConfigureOutcomes)
    \/ ChatConnect("A")
    \/ HolePunchTrain("A")
    \/ HolePunchTimer("A")
    \/ Receive("A", {Peer("A")}, ControlDatagrams, MaxSeq)

Spec == Init /\ [][Next]_vars

(***************************************************************************)
(* SpecSession: a process that initialized and is not asked to quit.  The  *)
(* user types /connect and /disconnect while the signaling server starts   *)
(* connections and the peer's frames arrive.                               *)
(***************************************************************************)
NextSession ==
    \/ MainInitialize("A", {"ok"})
    \/ StopSend("A")
    \/ StopFlags("A")
    \/ StopRest("A")
    \/ MonCheck("A")
    \/ MonSleep("A")
    \/ MonHandle("A")
    \/ CliConnect("A")
    \/ CliDisconnect("A", MaxSeq)
    \/ ChatInit("A", MaxSeq, BOOLEAN)
    \/ ChatConnect("A")
    \/ HolePunchTrain("A")
    \/ HolePunchTimer("A")
    \/ Receive("A", {Peer("A")}, ControlDatagrams, MaxSeq)

SpecSession == Init /\ [][NextSession]_vars

(***************************************************************************)
(* SpecTimeout: a session that is left alone.  The signaling server starts *)
(* a connection, the peer's hole punches arrive or stay away, time passes. *)
(* The monitor thread is scheduled again and again.                        *)
(***************************************************************************)
NextTimeout ==
    \/ MainInitialize("A", {"ok"})
    \/ StopSend("A")
    \/ StopFlags("A")
    \/ StopRest("A")
    \/ MonCheck("A")
    \/ MonSleep("A")
    \/ MonHandle("A")
    \/ ChatInit("A", MaxSeq, BOOLEAN)
    \/ ChatConnect("A")
    \/ HolePunchTrain("A")
    \/ HolePunchTimer("A")
    \/ Receive("A", {Peer("A")}, {ControlPacket(HOLE_PUNCH, ToU32(0))}, MaxSeq)
    \/ KeepAlive("A")
    \/ Tick("A", MaxTickSeq)

SpecTimeout ==
    /\ Init
    /\ [][NextTimeout]_vars
    /\ WF_vars(MonCheck("A"))
    /\ WF_vars(MonSleep("A"))
    /\ WF_vars(MonHandle("A"))
    /\ WF_vars(StopSend("A"))
    /\ WF_vars(StopFlags("A"))
    /\ WF_vars(StopRest("A"))

(***************************************************************************)
(* SpecData: the data path of a session.  Packets come from the tunnel,    *)
(* the peer's frames and acknowledgements arrive, sends complete with or   *)
(* without error, the peer disconnects.                                    *)
(***************************************************************************)
\* the datagrams that can reach the socket of e: a frame of each type, an
\* ACK for each pending sequence and for one that is not pending
Datagrams(e) ==
    { ControlPacket(HOLE_PUNCH, ToU32(0)), ControlPacket(DISCONNECT, ToU32(0)),
      MessagePacket(ToU32(0), IPv4Packet(HOST_IP, CLIENT_IP)) }
      \cup { ControlPacket(ACK, q) : q \in pendingAcks[e] \cup {nextSeqNumber[e]} }

NextData ==
    \/ MainInitialize("A", {"ok"})
    \/ StopSend("A")
    \/ StopFlags("A")
    \/ StopRest("A")
    \/ MonCheck("A")
    \/ MonSleep("A")
    \/ MonHandle("A")
    \/ ChatInit("A", MaxData - 1, BOOLEAN)
    \/ ChatConnect("A")
    \/ HolePunchTrain("A")
    \/ HolePunchTimer("A")
    \/ Receive("A", {Peer("A")}, Datagrams("A"), MaxData)
    \/ TunReceiveNext("A", MaxData)
    \/ SendComplete("A", SendErrors)
    \/ PostedHandler("A")

SpecData == Init /\ [][NextData]_vars

(***************************************************************************)
(* SpecWrap: the sequence counter of a session that crosses 2^32.  The     *)
(* counter starts WrapLead below the wrap; packets come from the tunnel,   *)
(* the peer's frames arrive, the peer disconnects.                         *)
(***************************************************************************)
NextWrap ==
    \/ MainInitialize("A", {"ok"})
    \/ StopSend("A")
    \/ StopFlags("A")
    \/ StopRest("A")
    \/ MonCheck("A")
    \/ MonSleep("A")
    \/ MonHandle("A")
    \/ ChatInit("A", 0, BOOLEAN)
    \/ ChatConnect("A")
    \/ HolePunchTrain("A")
    \/ HolePunchTimer("A")
    \/ Receive("A", {Peer("A")}, ControlDatagrams \cup
               {MessagePacket(ToU32(0), IPv4Packet(HOST_IP, CLIENT_IP))}, PastWrap)
    \/ TunReceive("A", PastWrap)

SpecWrap == InitWrap /\ [][NextWrap]_vars

(***************************************************************************)
(* SpecPair: two endpoints and the network between them.  Both processes   *)
(* start, then the signaling server sends chat-init to each and the hole   *)
(* punches travel.  The steps of the program and the delivery of a frame   *)
(* in flight are fair; no data is sent and time does not pass.             *)
(***************************************************************************)
NextPair ==
    \/ \E e \in Ends : MainInitialize(e, {"ok"})
    \/ \E e \in Ends : MonCheck(e)
    \/ \E e \in Ends : MonSleep(e)
    \/ \E e \in Ends : MonHandle(e)
    \/ \E e \in Ends : ChatInitBoth(e, 1)
    \/ \E e \in Ends : ChatConnect(e)
    \/ \E e \in Ends : HolePunchTrain(e)
    \/ \E e \in Ends : HolePunchTimer(e)
    \/ \E e \in Ends : Deliver(e)

SpecPair ==
    /\ Init
    /\ [][NextPair]_vars
    /\ \A e \in Ends :
          /\ WF_vars(MonCheck(e))
          /\ WF_vars(MonSleep(e))
          /\ WF_vars(MonHandle(e))
          /\ WF_vars(ChatConnect(e))
          /\ WF_vars(HolePunchTrain(e))
          /\ WF_vars(HolePunchTimer(e))
          /\ WF_vars(Deliver(e))

(***************************************************************************)
(* SpecStop: the end of a session that is up on both sides.  The user of A *)
(* types /disconnect; before that the tunnel of A may hand over a packet.  *)
(* The frames travel in any order.  The steps of the program and the       *)
(* delivery of a frame in flight are fair; time does not pass.             *)
(***************************************************************************)
\* a session that is up on both sides: each process initialized, handled
\* chat-init, sent its five hole punches and armed the keep-alive timer, each
\* monitor handled PEER_CONNECTED; the last hole punch of A, sent under the
\* sequence number last, is still in flight
ConnectedAfter(last) ==
    /\ current_state = [e \in Ends |-> CONNECTED]
    /\ event_queue = [e \in Ends |-> <<>>]
    /\ running = [e \in Ends |-> TRUE]
    /\ connected = [e \in Ends |-> TRUE]
    /\ elapsed = [e \in Ends |-> 0]
    /\ peerEndpoint = [e \in Ends |-> Peer(e)]
    /\ nextSeqNumber = [e \in Ends |-> NextSeq(last)]
    /\ pendingAcks = [e \in Ends |-> {}]
    /\ keepAliveTimer = [e \in Ends |-> "armed"]
    /\ ioRunning = [e \in Ends |-> TRUE]
    /\ receiving = [e \in Ends |-> TRUE]
    /\ completions = [e \in Ends |-> {}]
    /\ posted = [e \in Ends |-> {}]
    /\ sysRunning = [e \in Ends |-> TRUE]
    /\ isHost = [e \in Ends |-> FALSE]
    /\ localVirtualIp = [e \in Ends |-> assignIPAddresses(FALSE).localVirtualIp]
    /\ peerVirtualIp = [e \in Ends |-> assignIPAddresses(FALSE).peerVirtualIp]
    /\ pendingRequest = [e \in Ends |-> FALSE]
    /\ tun = [e \in Ends |-> "processing"]
    /\ netModule = [e \in Ends |-> TRUE]
    /\ configured = [e \in Ends |-> TRUE]
    /\ monitor = [e \in Ends |-> "running"]
    /\ exiting = [e \in Ends |-> FALSE]
    /\ pc = [e \in Ends |-> [t \in Threads |-> IF t = "main" THEN "up" ELSE "idle"]]
    /\ cnt = [e \in Ends |-> [t \in Threads |-> 0]]
    /\ ret = [e \in Ends |-> [t \in Threads |-> "idle"]]
    /\ loc = [e \in Ends |-> [t \in Threads |-> <<>>]]
    /\ out = <<>>
    /\ delivered = <<>>
    /\ net = SetToBag({Frame("A", "B", ControlPacket(HOLE_PUNCH, last))})
    /\ stopped = [e \in Ends |-> FALSE]
    /\ lastMsgSeq = [e \in Ends |-> <<>>]
    /\ wrapped = [e \in Ends |-> FALSE]
    /\ ssPc = [p \in Threads |-> "idle"]
    /\ ssCur = [p \in Threads |-> IDLE]
    /\ ssTgt = [p \in Threads |-> IDLE]

InitConnectedAfter(last) == ConnectedAfter(last) /\ TunUnfollowed

\* the first session of the two processes
InitConnected == InitConnectedAfter(ToU32(HolePunchCount - 1))

NextStop ==
    \/ CliDisconnect("A", HolePunchCount + MaxSeq)
    \/ TunReceive("A", HolePunchCount + MaxData - 1)
    \/ \E e \in Ends : StopSend(e)
    \/ \E e \in Ends : StopFlags(e)
    \/ \E e \in Ends : StopRest(e)
    \/ \E e \in Ends : MonCheck(e)
    \/ \E e \in Ends : MonSleep(e)
    \/ \E e \in Ends : MonHandle(e)
    \/ \E e \in Ends : Deliver(e)

SpecStop ==
    /\ InitConnected
    /\ [][NextStop]_vars
    /\ \A e \in Ends :
          /\ WF_vars(StopSend(e))
          /\ WF_vars(StopFlags(e))
          /\ WF_vars(StopRest(e))
          /\ WF_vars(MonCheck(e))
          /\ WF_vars(MonSleep(e))
          /\ WF_vars(MonHandle(e))
          /\ WF_vars(Deliver(e))

(***************************************************************************)
(* SpecSend: the send path of a session that is up.  The tunnel of A hands *)
(* over packets of ordinary and of the largest sizes; the user of A types  *)
(* /disconnect or the peer's DISCONNECT arrives at any moment.  The frames *)
(* of A stay in flight.                                                    *)
(***************************************************************************)
NextSend ==
    \/ CliDisconnect("A", HolePunchCount + MaxSeq)
    \/ TunReceive("A", HolePunchCount + MaxData)
    \/ TunReceiveLarge("A", HolePunchCount + MaxData)
    \/ Receive("A", {Peer("A")}, ControlDatagrams, HolePunchCount + MaxData)
    \/ StopSend("A")
    \/ StopFlags("A")
    \/ StopRest("A")
    \/ MonCheck("A")
    \/ MonSleep("A")
    \/ MonHandle("A")

SpecSend == InitConnected /\ [][NextSend]_vars

(***************************************************************************)
(* SpecFraming: the receive path under datagrams of any content.  The      *)
(* signaling server starts a connection, the peer's control frames arrive, *)
(* and a third party sends datagrams that are not well-formed frames.      *)
(***************************************************************************)
\* a type byte that PacketType does not name
UnknownType == DISCONNECT + 1

\* datagrams that are not frames of the protocol: one byte short of a header,
\* a wrong magic number, a wrong version, an unknown type byte, and a MESSAGE
\* whose msg_len is one more than the bytes that follow the header
MalformedDatagrams ==
    LET hp == ControlPacket(HOLE_PUNCH, ToU32(0))
        msg == MessagePacket(ToU32(0), IPv4Packet(HOST_IP, CLIENT_IP))
    IN  { SubSeq(hp, 1, HEADER_SIZE - 1),
          [hp EXCEPT ![1] = 0],
          [hp EXCEPT ![6] = PROTOCOL_VERSION + 1],
          ControlPacket(UnknownType, ToU32(0)),
          [msg EXCEPT ![HEADER_SIZE] = IPHeaderSize + 1] }

NextFraming ==
    \/ MainInitialize("A", {"ok"})
    \/ StopSend("A")
    \/ StopFlags("A")
    \/ StopRest("A")
    \/ MonCheck("A")
    \/ MonSleep("A")
    \/ MonHandle("A")
    \/ ChatInit("A", 1, {TRUE})
    \/ ChatConnect("A")
    \/ HolePunchTrain("A")
    \/ HolePunchTimer("A")
    \/ Receive("A", {Peer("A")}, ControlDatagrams, MaxSeq)
    \/ Receive("A", {Stranger}, MalformedDatagrams, MaxSeq)

SpecFraming == Init /\ [][NextFraming]_vars

(***************************************************************************)
(* SpecBridge: the packet bridge of a session in either role.  The user    *)
(* accepts a chat request or not, the signaling server starts the          *)
(* connection, the peer's hole punch arrives; then the tunnel hands over   *)
(* buffers of any content and the peer, once the link is up, sends MESSAGE *)
(* frames that carry such buffers.  The packets flow while the signaling   *)
(* thread waits for the server, not in the middle of the hole punching.    *)
(***************************************************************************)
\* the peer's frames that reach e: a hole punch and, once the link is up and
\* the hole punching of e over, a MESSAGE for each buffer
BridgeDatagrams(e) ==
    { ControlPacket(HOLE_PUNCH, ToU32(0)) }
      \cup (IF connected[e] /\ pc[e]["sig"] = "idle"
            THEN { MessagePacket(ToU32(0), p) : p \in BridgePackets }
            ELSE {})

NextBridge ==
    \/ MainInitialize("A", {"ok"})
    \/ MonCheck("A")
    \/ MonSleep("A")
    \/ MonHandle("A")
    \/ ChatRequest("A")
    \/ CliAcceptRequest("A")
    \/ ChatInit("A", 1, {TRUE})
    \/ ChatConnect("A")
    \/ HolePunchTrain("A")
    \/ HolePunchTimer("A")
    \/ Receive("A", {Peer("A")}, BridgeDatagrams("A"), HolePunchCount + MaxData - 1)
    \/ TunReceiveAny("A", HolePunchCount + MaxData - 1)

SpecBridge == Init /\ [][NextBridge]_vars

(***************************************************************************)
(* SpecCodec: the frames of a session that is up on both sides, at         *)
(* sequence numbers across the 32-bit range.  A caller hands sendMessage   *)
(* of A payloads from the empty one to the longest; the frames travel, B   *)
(* parses them and acknowledges, the user of A types /disconnect.          *)
(***************************************************************************)
\* the sequence number of the last hole punch: before 7, on both sides of
\* each byte boundary, the magic number, and the end of the range
SeqSamples ==
    { ToU32(6), <<0, 255>>, <<0, U16Modulus - 1>>, <<255, U16Modulus - 1>>,
      <<4660, 22135>>, <<U16Modulus - 1, U16Modulus - 4>> }

\* the sequence numbers a session that starts at a sample may use for data
CodecSeqs == { AddU32(NextSeq(last), i) : last \in SeqSamples, i \in 0..(MaxData - 2) }

\* payloads: none, two bytes, an IPv4 header, and the longest
CodecPayloads == { <<>>, <<170, 187>>, IPv4Packet(HOST_IP, CLIENT_IP), Zeros(MaxPayload) }

InitCodec == \E last \in SeqSamples : InitConnectedAfter(last)

\* a call of UDPNetwork::sendMessage with dataToSend
SendMessageCall(e, dataToSend) ==
    /\ sendMessage(e, dataToSend)
    /\ delivered' = <<>>
    /\ UNCHANGED <<smVars, running, connected, elapsed, peerEndpoint, keepAliveTimer, ioRunning, receiving,
                   posted, sysVars, thrVars, stopped, ssVars>>

CodecSend(e) ==
    \E dataToSend \in CodecPayloads :
        /\ Alive(e)
        /\ nextSeqNumber[e] \in CodecSeqs
        /\ SendMessageCall(e, dataToSend)
        /\ Transmit
CodecDisconnect(e) == Alive(e) /\ CliStopConnection(e) /\ Transmit

\* the monitor of A finds no event in this session and is left out
NextCodec ==
    \/ CodecSend("A")
    \/ CodecDisconnect("A")
    \/ \E e \in Ends : StopSend(e)
    \/ \E e \in Ends : StopFlags(e)
    \/ \E e \in Ends : StopRest(e)
    \/ MonCheck("B")
    \/ MonSleep("B")
    \/ MonHandle("B")
    \/ \E e \in Ends : Deliver(e)

SpecCodec == InitCodec /\ [][NextCodec]_vars

(***************************************************************************)
(* The roles: one client whose user asks for a connection, accepts a       *)
(* request or does both, before and after the server's chat-init           *)
(***************************************************************************)

NextRoles ==
    \/ MainInitialize("A", {"ok"})
    \/ MonCheck("A")
    \/ MonSleep("A")
    \/ MonHandle("A")
    \/ CliConnect("A")
    \/ ChatRequest("A")
    \/ CliAcceptRequest("A")
    \/ ChatInit("A", 1, ConfigureOutcomes)
    \/ ChatConnect("A")
    \/ HolePunchTrain("A")
    \/ HolePunchTimer("A")
    \/ Receive("A", {Peer("A")}, {ControlPacket(HOLE_PUNCH, ToU32(0))}, HolePunchCount)

SpecRoles == Init /\ [][NextRoles]_vars

(***************************************************************************)
(* Reuse: one client, a first session that the user ends with /disconnect, *)
(* a second chat-init once stopConnection has returned, and a peer whose   *)
(* hole punches keep arriving.  The threads of the program take their      *)
(* steps; the user gives no command after the second chat-init.            *)
(***************************************************************************)
\* the headers attached by e so far
HeadersAttached(e) == nextSeqNumber[e][2]

\* the second chat-init has reached e
SecondBegun(e) ==
    \/ HeadersAttached(e) > HolePunchCount + 1
    \/ HeadersAttached(e) >= HolePunchCount /\ ~stopped[e]
          /\ pc[e]["sig"] \in {"ci_connect", "hp_train"}

\* /disconnect typed before the second chat-init
UserStopsFirst(e) == ~SecondBegun(e) /\ CliDisconnect(e, HolePunchCount)

\* a session was ended by P2PSystem::stopConnection, which has returned
SessionEnded(e) ==
    /\ stopped[e]
    /\ current_state[e] = IDLE
    /\ HeadersAttached(e) >= HolePunchCount
    /\ pc[e]["cli"] = "idle"
    /\ pc[e]["mon"] \in {"idle", "drain"}

\* chat-init for the session that follows
ChatInitAgain(e) ==
    /\ SessionEnded(e)
    /\ ChatInit(e, HolePunchCount + 2, {TRUE})

NextReuse ==
    \/ MainInitialize("A", {"ok"})
    \/ StopSend("A")
    \/ StopFlags("A")
    \/ StopRest("A")
    \/ MonCheck("A")
    \/ MonSleep("A")
    \/ MonHandle("A")
    \/ UserStopsFirst("A")
    \/ ChatInit("A", 1, {TRUE})
    \/ ChatInitAgain("A")
    \/ ChatConnect("A")
    \/ HolePunchTrain("A")
    \/ HolePunchTimer("A")
    \/ Receive("A", {Peer("A")}, {ControlPacket(HOLE_PUNCH, ToU32(0))}, 1)

SpecReuse ==
    /\ Init
    /\ [][NextReuse]_vars
    /\ WF_vars(MonCheck("A"))
    /\ WF_vars(MonSleep("A"))
    /\ WF_vars(MonHandle("A"))
    /\ WF_vars(StopSend("A"))
    /\ WF_vars(StopFlags("A"))
    /\ WF_vars(StopRest("A"))
    /\ WF_vars(ChatConnect("A"))
    /\ WF_vars(HolePunchTrain("A"))
    /\ WF_vars(HolePunchTimer("A"))
    /\ WF_vars(Receive("A", {Peer("A")}, {ControlPacket(HOLE_PUNCH, ToU32(0))}, 1))


(***************************************************************************)
(* Receive: one client that listens (startListening has set running), and  *)
(* whose socket is reached by valid frames of every type, from the peer    *)
(* and from a third party, while the user may type /disconnect.  The two   *)
(* stores of stopConnection are separate steps here, so that frames are    *)
(* received between them.                                                  *)
(***************************************************************************)
\* the sequence number the frames of the surroundings carry
RemoteSeq == ToU32(MaxSeq)

\* a MESSAGE frame followed by one byte more than its msg_len announces
PaddedMessage == MessagePacket(RemoteSeq, <<69, 0>>) \o <<7>>

\* valid frames of every type
ReceiveDatagrams ==
    { ControlPacket(t, RemoteSeq) : t \in {HOLE_PUNCH, HEARTBEAT, ACK, DISCONNECT} }
      \cup { MessagePacket(RemoteSeq, <<>>), PaddedMessage }

\* what a third party sends
StrangerDatagrams == { ControlPacket(HOLE_PUNCH, RemoteSeq) }

NextReceive ==
    \/ MainInitialize("A", {"ok"})
    \/ StopSend("A")
    \/ StopLink("A")
    \/ StopRunning("A")
    \/ StopRest("A")
    \/ MonCheck("A")
    \/ MonSleep("A")
    \/ MonHandle("A")
    \/ CliDisconnect("A", MaxData)
    \/ Receive("A", {Peer("A")}, ReceiveDatagrams, MaxData)
    \/ Receive("A", {Stranger}, StrangerDatagrams, MaxData)

SpecReceive == Init /\ [][NextReceive]_vars


(***************************************************************************)
(* Receive errors: one client through start-up, chat-init and hole         *)
(* punching, the peer's hole punches, and receives that complete with an   *)
(* error                                                                   *)
(***************************************************************************)
NextReceiveErrors ==
    \/ MainInitialize("A", {"ok"})
    \/ StopSend("A")
    \/ StopFlags("A")
    \/ StopRest("A")
    \/ MonCheck("A")
    \/ MonSleep("A")
    \/ MonHandle("A")
    \/ ChatInit("A", 1, {TRUE})
    \/ ChatConnect("A")
    \/ HolePunchTrain("A")
    \/ HolePunchTimer("A")
    \/ Receive("A", {Peer("A")}, {ControlPacket(HOLE_PUNCH, ToU32(0))}, HolePunchCount)
    \/ ReceiveError("A", ReceiveErrors)

SpecReceiveErrors == Init /\ [][NextReceiveErrors]_vars


(***************************************************************************)
(* SpecSendErrors: the completions of the sends of a session that is up.   *)
(* The tunnel of A hands over packets and the peer's MESSAGE frames are    *)
(* acknowledged; every send of A completes with any result; the user of A  *)
(* types /disconnect at any moment.  The frames of A stay in flight.       *)
(***************************************************************************)
SendResults == SendErrors \cup {"try_again"}

PeerMessages == { MessagePacket(ToU32(0), IPv4Packet(HOST_IP, CLIENT_IP)) }

NextSendErrors ==
    \/ CliDisconnect("A", HolePunchCount + MaxData)
    \/ TunReceive("A", HolePunchCount + MaxData)
    \/ Receive("A", {Peer("A")}, PeerMessages, HolePunchCount + MaxData)
    \/ SendComplete("A", SendResults)
    \/ PostedHandler("A")
    \/ ControlSendComplete("A", SendResults)
    \/ StopSend("A")
    \/ StopFlags("A")
    \/ StopRest("A")
    \/ MonCheck("A")
    \/ MonSleep("A")
    \/ MonHandle("A")

SpecSendErrors == InitConnected /\ [][NextSendErrors]_vars


(***************************************************************************)
(* SpecShutdownEvent: the external shutdown trigger.  A process that       *)
(* initialized is connecting or connected or neither when                  *)
(* SHUTDOWN_REQUESTED is queued; the monitor thread and the I/O of the     *)
(* process are scheduled again and again.  Nobody types a command.         *)
(***************************************************************************)
NextShutdownEvent ==
    \/ MainInitialize("A", {"ok"})
    \/ ChatInit("A", 1, {TRUE})
    \/ ChatConnect("A")
    \/ HolePunchTrain("A")
    \/ HolePunchTimer("A")
    \/ Receive("A", {Peer("A")}, {ControlPacket(HOLE_PUNCH, ToU32(0))}, HolePunchCount)
    \/ ShutdownRequest("A")
    \/ StopSend("A")
    \/ StopFlags("A")
    \/ MonCheck("A")
    \/ MonSleep("A")
    \/ MonHandle("A")
    \/ MonShutdownState("A")
    \/ MonShutdownNet("A")
    \/ MonShutdownNet2("A")
    \/ MonSelfJoin("A")

SpecShutdownEvent ==
    /\ Init
    /\ [][NextShutdownEvent]_vars
    /\ WF_vars(MonCheck("A"))
    /\ WF_vars(MonSleep("A"))
    /\ WF_vars(MonHandle("A"))
    /\ WF_vars(StopSend("A"))
    /\ WF_vars(StopFlags("A"))
    /\ WF_vars(MonShutdownState("A"))
    /\ WF_vars(MonShutdownNet("A"))
    /\ WF_vars(MonShutdownNet2("A"))
    /\ WF_vars(MonSelfJoin("A"))


(***************************************************************************)
(* SpecOrder: the way of a payload from the socket to the adapter.  The    *)
(* session of A is up and its tunnel processes packets; the peer sends     *)
(* MESSAGE frames whose payloads are numbered in the order of their        *)
(* arrival, and payloads for a third host; the tunnel's send thread runs   *)
(* at any time, the user of A types /disconnect at any time.               *)
(***************************************************************************)
\* an IPv4 packet for e whose type-of-service byte is n
TaggedPacket(e, n) == [IPv4Packet(peerVirtualIp[e], localVirtualIp[e]) EXCEPT ![2] = n]

TagOf(packet) == packet[2]

\* the MESSAGE frames that reach e next: a payload for e that carries the
\* number of headers e has attached so far, which grows with every MESSAGE
\* that e acknowledges, and a payload for a third host
OrderDatagrams(e) ==
    { MessagePacket(RemoteSeq, TaggedPacket(e, nextSeqNumber[e][2])),
      MessagePacket(RemoteSeq, IPv4Packet(peerVirtualIp[e], <<10, 0, 0, 3>>)) }

InitOrder == ConnectedAfter(ToU32(HolePunchCount - 1)) /\ TunFollowed

NextOrder ==
    \/ Receive("A", {Peer("A")}, OrderDatagrams("A"), HolePunchCount + MaxData + 1)
    \/ TunSend("A")
    \/ CliDisconnect("A", HolePunchCount + MaxData + 2)
    \/ StopSend("A")
    \/ StopFlags("A")
    \/ StopRest("A")

SpecOrder == InitOrder /\ [][NextOrder]_vars


(***************************************************************************)
(* SpecSenders: the four threads of a process that build headers.  After   *)
(* chat-init the signaling thread sends the hole-punch train, the peer's   *)
(* hole punch brings the link and the tunnel up, the tunnel's receive      *)
(* thread calls sendMessage, the keep-alive timer of the I/O worker fires  *)
(* and the user types /disconnect, in any order.  Time is followed from    *)
(* the arming of the timer.                                                *)
(***************************************************************************)
\* the headers a process attaches in SpecSenders at most
SenderSeqs == HolePunchCount + MaxData - 1

NextSenders ==
    \/ MainInitialize("A", {"ok"})
    \/ ChatInit("A", 1, {TRUE})
    \/ ChatConnect("A")
    \/ HolePunchTrain("A")
    \/ HolePunchTimer("A")
    \/ Receive("A", {Peer("A")}, {ControlPacket(HOLE_PUNCH, ToU32(0))}, SenderSeqs)
    \/ MonCheck("A")
    \/ MonSleep("A")
    \/ MonHandle("A")
    \/ TunReceive("A", SenderSeqs)
    \/ KeepAlive("A")
    \/ keepAliveTimer["A"] = "armed" /\ Tick("A", SenderSeqs)
    \/ CliDisconnect("A", SenderSeqs)
    \/ StopSend("A")
    \/ StopFlags("A")
    \/ StopRest("A")

SpecSenders == Init /\ [][NextSenders]_vars


(***************************************************************************)
(* SpecConnecting: a process on its way to a session.  The user types      *)
(* /connect; the signaling server delivers peer-init or does not, the peer *)
(* answers the hole punches or does not.  The threads of the process are   *)
(* scheduled again and again and time passes: the signaling thread goes    *)
(* through the hole-punch train, the keep-alive timer expires and its      *)
(* handler runs, the monitor takes the events.                             *)
(***************************************************************************)
NextConnecting ==
    \/ MainInitialize("A", {"ok"})
    \/ CliConnect("A")
    \/ ChatInit("A", 1, BOOLEAN)
    \/ ChatConnect("A")
    \/ HolePunchTrain("A")
    \/ HolePunchTimer("A")
    \/ Receive("A", {Peer("A")}, {ControlPacket(HOLE_PUNCH, ToU32(0))}, MaxTickSeq)
    \/ KeepAlive("A")
    \/ Tick("A", MaxTickSeq)
    \/ MonCheck("A")
    \/ MonSleep("A")
    \/ MonHandle("A")
    \/ StopSend("A")
    \/ StopFlags("A")
    \/ StopRest("A")

SpecConnecting ==
    /\ Init
    /\ [][NextConnecting]_vars
    /\ WF_vars(ChatConnect("A"))
    /\ WF_vars(HolePunchTrain("A"))
    /\ WF_vars(HolePunchTimer("A"))
    /\ WF_vars(KeepAlive("A"))
    /\ WF_vars(Tick("A", MaxTickSeq))
    /\ WF_vars(MonCheck("A"))
    /\ WF_vars(MonSleep("A"))
    /\ WF_vars(MonHandle("A"))
    /\ WF_vars(StopSend("A"))
    /\ WF_vars(StopFlags("A"))
    /\ WF_vars(StopRest("A"))


(***************************************************************************)
(* SpecReinit: peer-init during a session.  The session of A is up; the    *)
(* signaling server delivers peer-init at any time, also while the state   *)
(* is CONNECTED; the peer's frames arrive, the tunnel hands over packets,  *)
(* the user types /disconnect.                                             *)
(***************************************************************************)
\* the headers a process attaches in SpecReinit at most
ReinitSeqs == HolePunchCount + MaxData

NextReinit ==
    \/ ChatInit("A", ReinitSeqs, ConfigureOutcomes)
    \/ ChatConnect("A")
    \/ HolePunchTrain("A")
    \/ HolePunchTimer("A")
    \/ Receive("A", {Peer("A")}, ControlDatagrams, ReinitSeqs)
    \/ TunReceive("A", ReinitSeqs)
    \/ CliDisconnect("A", ReinitSeqs)
    \/ StopSend("A")
    \/ StopFlags("A")
    \/ StopRest("A")
    \/ MonCheck("A")
    \/ MonSleep("A")
    \/ MonHandle("A")

SpecReinit == InitConnected /\ [][NextReinit]_vars


(***************************************************************************)
(* SystemStateManager::setState step by step: the load of current_state_,  *)
(* isValidTransition, the store.  Each thread passes the targets its code  *)
(* passes.                                                                 *)
(***************************************************************************)
\* main: shutdown (SHUTTING_DOWN, and IDLE through stopConnection)
\* cli: connectToPeer (CONNECTING), stopConnection (IDLE)
\* sig: handleConnectionInit (CONNECTING, IDLE)
\* mon: handleNetworkEvent (CONNECTED, IDLE through stopConnection,
\*      SHUTTING_DOWN through shutdown)
Targets(p) ==
    CASE p = "main" -> {IDLE, SHUTTING_DOWN}
      [] p = "cli" -> {CONNECTING, IDLE}
      [] p = "sig" -> {CONNECTING, IDLE}
      [] p = "mon" -> {CONNECTED, IDLE, SHUTTING_DOWN}

SetStateCall(p, t) ==
    /\ ssPc[p] = "idle"
    /\ ssPc' = [ssPc EXCEPT ![p] = "load"]
    /\ ssTgt' = [ssTgt EXCEPT ![p] = t]
    /\ UNCHANGED <<ssCur, smVars, netVars, sysVars, thrVars, wireVars, ghostVars, tunVars>>

\* SystemState current = current_state_.load()
SetStateLoad(p) ==
    /\ ssPc[p] = "load"
    /\ ssCur' = [ssCur EXCEPT ![p] = current_state["A"]]
    /\ ssPc' = [ssPc EXCEPT ![p] = "check"]
    /\ UNCHANGED <<ssTgt, smVars, netVars, sysVars, thrVars, wireVars, ghostVars, tunVars>>

\* if (!isValidTransition(current, new_state)) return; the locals of a call
\* that returned are given their initial values
SetStateCheck(p) ==
    /\ ssPc[p] = "check"
    /\ IF isValidTransition(ssCur[p], ssTgt[p])
       THEN /\ ssPc' = [ssPc EXCEPT ![p] = "store"]
            /\ UNCHANGED <<ssCur, ssTgt>>
       ELSE /\ ssPc' = [ssPc EXCEPT ![p] = "idle"]
            /\ ssCur' = [ssCur EXCEPT ![p] = IDLE]
            /\ ssTgt' = [ssTgt EXCEPT ![p] = IDLE]
    /\ UNCHANGED <<smVars, netVars, sysVars, thrVars, wireVars, ghostVars, tunVars>>

\* current_state_.store(new_state)
SetStateStore(p) ==
    /\ ssPc[p] = "store"
    /\ current_state' = Set(current_state, "A", ssTgt[p])
    /\ ssPc' = [ssPc EXCEPT ![p] = "idle"]
    /\ ssCur' = [ssCur EXCEPT ![p] = IDLE]
    /\ ssTgt' = [ssTgt EXCEPT ![p] = IDLE]
    /\ UNCHANGED <<event_queue, netVars, sysVars, thrVars, wireVars, ghostVars, tunVars>>

CallSetState == \E p \in Threads : \E t \in Targets(p) : SetStateCall(p, t)
LoadState == \E p \in Threads : SetStateLoad(p)
CheckTransition == \E p \in Threads : SetStateCheck(p)
StoreState == \E p \in Threads : SetStateStore(p)

NextSetState == CallSetState \/ LoadState \/ CheckTransition \/ StoreState

SpecSetState == Init /\ [][NextSetState]_vars

\* the table of permitted transitions
TransitionTable(s, t) ==
    \/ s = IDLE /\ t \in {IDLE, CONNECTING, SHUTTING_DOWN}
    \/ s = CONNECTING /\ t \in {CONNECTED, IDLE, SHUTTING_DOWN}
    \/ s = CONNECTED /\ t \in {CONNECTED, IDLE, SHUTTING_DOWN}
    \/ s = SHUTTING_DOWN /\ t = SHUTTING_DOWN

\* the call of p has read current_state_ and no other call has changed it since
Uninterleaved(p) == ssCur[p] = current_state["A"]

\* C1: a setState(t) call that no other setState interleaves with, made in
\* state s, passes its validity check exactly when (s, t) is in the table of
\* permitted transitions and then stores t; for every other pair it returns
\* with current_state unchanged.
C1_SetStateFollowsTable ==
    [][\A p \in Threads :
          /\ (ssPc[p] = "check" /\ ssPc'[p] # "check" /\ Uninterleaved(p))
                => /\ current_state' = current_state
                   /\ ssPc'[p] = IF TransitionTable(ssCur[p], ssTgt[p]) THEN "store" ELSE "idle"
          /\ (ssPc[p] = "store" /\ ssPc'[p] # "store" /\ Uninterleaved(p))
                => /\ TransitionTable(ssCur[p], ssTgt[p])
                   /\ current_state'["A"] = ssTgt[p]]_vars

\* a permitted CONNECTING -> CONNECTED has been stored and a call asking for
\* CONNECTED -> CONNECTING stands at its validity check
C1_Witness ==
    /\ current_state["A"] = CONNECTED
    /\ \E p \in Threads : ssPc[p] = "check" /\ ssCur[p] = CONNECTED /\ ssTgt[p] = CONNECTING

\* C2: once current_state is SHUTTING_DOWN it is SHUTTING_DOWN in every later
\* state, whatever the interleaving of the load, check and store steps of the
\* concurrent setState calls.
C2_ShuttingDownTerminal ==
    [][current_state["A"] = SHUTTING_DOWN => current_state'["A"] = SHUTTING_DOWN]_vars

\* a call that read an earlier state is about to store over SHUTTING_DOWN
C2_Witness ==
    /\ current_state["A"] = SHUTTING_DOWN
    /\ \E p \in Threads : ssPc[p] = "store" /\ ssTgt[p] # SHUTTING_DOWN

(***************************************************************************)
(* The supervisor and the transport under commands                         *)
(***************************************************************************)
\* the frames of the given types that e handed to its socket in the last step
Produced(e, types) ==
    { i \in 1..Len(out) : out[i].src = e /\ PacketTypeOf(out[i].data) \in types }

\* C3: after UDPNetwork::stopConnection returned, and until the next
\* connection attempt, the transport hands no MESSAGE, HOLE_PUNCH or ACK frame
\* to the socket and the system state is IDLE.
C3_QuietAfterStop ==
    \A e \in Ends :
        stopped[e] => /\ Produced(e, {MESSAGE, HOLE_PUNCH, ACK}) = {}
                      /\ current_state[e] = IDLE

\* stopConnection has returned while the hole-punch train of the connection
\* attempt made before it is still sending
C3_Witness == stopped["A"] /\ pc["A"]["sig"] = "hp_train"

\* a connection attempt that put the state in CONNECTING fails in this step:
\* configureInterface reports failure in handleConnectionInit, the transport's
\* connectToPeer returns false, or the monitor, unable to start the tunnel on
\* PEER_CONNECTED, finishes the stopConnection it called
AttemptFails(e) ==
    \/ /\ setState(current_state[e], CONNECTING) = CONNECTING
       /\ SigChatInit(e, Peer(e), FALSE)
    \/ /\ current_state[e] = CONNECTING
       /\ pc[e]["sig"] = "ci_connect" /\ connected[e]
       /\ pc'[e]["sig"] = "idle"
    \/ /\ pc[e]["mon"] = "psc_rest"
       /\ pc'[e]["mon"] # "psc_rest"

\* C7: whenever a connection attempt that put the state in CONNECTING fails,
\* the state returns to IDLE and the process keeps running: the state is not
\* SHUTTING_DOWN and the monitor keeps draining events.
C7_FailedAttemptReturnsToIdle ==
    [][\A e \in Ends :
          (pc[e]["main"] = "up" /\ AttemptFails(e))
              => /\ current_state'[e] = IDLE
                 /\ sysRunning'[e]
                 /\ monitor'[e] = "running"]_vars

\* handleConnectionInit has returned after configureInterface failed
C7_Witness ==
    /\ pc["A"]["main"] = "up" /\ pc["A"]["sig"] = "idle"
    /\ current_state["A"] = CONNECTING
    /\ localVirtualIp["A"] # <<>> /\ ~configured["A"] /\ peerEndpoint["A"] = NoEndpoint

\* C8: P2PSystem::shutdown called by the main thread always completes, and
\* once it has returned the state is SHUTTING_DOWN: after an initialize that
\* aborted, in IDLE, CONNECTING and CONNECTED, and when it runs a second time.
C8_ShutdownCompletes ==
    \A e \in Ends :
        /\ pc[e]["main"] # "crashed"
        /\ pc[e]["main"] \in {"down", "exit"} => current_state[e] = SHUTTING_DOWN

\* shutdown is at tunInterface->close() after an initialize that created no tunnel
C8_Witness == pc["A"]["main"] = "sd_state" /\ tun["A"] = "none"

(***************************************************************************)
(* The idle timeout                                                        *)
(***************************************************************************)
\* the expired keep-alive handler of e runs in this step
KeepAliveRuns(e) ==
    /\ keepAliveTimer[e] \in {"fired", "fired+armed"}
    /\ keepAliveTimer'[e] \notin {"fired", "fired+armed"}

AllPeersDisconnected == NetworkEventData(ALL_PEERS_DISCONNECTED, "")

Waiting(e, ev) == \E i \in 1..Len(event_queue[e]) : event_queue[e][i] = ev

\* C4: a keep-alive tick of a running transport that is connected and has
\* received no valid frame for more than 20 s sets connected = false and
\* queues ALL_PEERS_DISCONNECTED once, and no other tick queues anything; when
\* the event waits while the state is CONNECTED, the monitor handles it by
\* stopConnection and the state becomes IDLE.
C4_IdleTimeout ==
    /\ [][\A e \in Ends :
            KeepAliveRuns(e) =>
                IF running[e] /\ connected[e] /\ elapsed[e] > TimeoutSec
                THEN /\ ~connected'[e]
                     /\ event_queue'[e] = Append(event_queue[e], AllPeersDisconnected)
                ELSE /\ connected'[e] = connected[e]
                     /\ event_queue'[e] = event_queue[e]]_vars
    /\ \A e \in {"A"} :
          (current_state[e] = CONNECTED /\ Waiting(e, AllPeersDisconnected))
              ~> (current_state[e] = IDLE)

\* the tick has timed the peer out: the event waits, the link is down and the
\* state is still CONNECTED
C4_Witness ==
    /\ current_state["A"] = CONNECTED
    /\ ~connected["A"] /\ elapsed["A"] > TimeoutSec
    /\ Waiting("A", AllPeersDisconnected)


\* the sequence numbers an ACK that reaches e can carry in the data path
AckSeqs(e) == pendingAcks[e] \cup {nextSeqNumber[e]}

\* this step receives an ACK frame carrying q at the socket of e
ReceivesAck(e, q) == HandleReceiveFrom(e, ControlPacket(ACK, q), Peer(e))

\* what any step does to pendingAcks apart from the receipt of an ACK: every
\* MESSAGE handed to the socket has its sequence pending, a sequence is
\* inserted by an accepted sendMessage alone and is the counter's value, a
\* completion reporting would_block posts the erasure, and an entry leaves
\* through the receipt of its ACK or through that posted handler
PendingAcksElsewhere(e) ==
    /\ \A i \in Produced(e, {MESSAGE})' : SeqOf(out'[i].data) \in pendingAcks'[e]
    /\ pendingAcks'[e] \ pendingAcks[e] # {} =>
          /\ pendingAcks'[e] \ pendingAcks[e] = {nextSeqNumber[e]}
          /\ running[e]
          /\ lastMsgSeq'[e] = nextSeqNumber[e]
          /\ pendingAcks[e] \subseteq pendingAcks'[e]
    /\ \A q \in completions[e] :
          HandleSendComplete(e, q, "would_block") =>
              EraseTask(q) \in posted'[e] /\ pendingAcks'[e] = pendingAcks[e]
    /\ pendingAcks[e] \ pendingAcks'[e] # {} =>
          \E q \in pendingAcks[e] :
              /\ pendingAcks'[e] = pendingAcks[e] \ {q}
              /\ ReceivesAck(e, q) \/ RunPosted(e, EraseTask(q))

\* C9 as stated: pendingAcks gains the sequence of every MESSAGE that
\* sendMessage accepts before the frame leaves; the entry is removed when an ACK
\* carrying that sequence is received, or after the completion reported
\* would_block; an ACK for a sequence that is not pending changes nothing;
\* nothing else inserts or removes entries.
C9_AckAlwaysRemoves ==
    [][ /\ \A q \in AckSeqs("A") :
              ReceivesAck("A", q) => pendingAcks'["A"] = pendingAcks["A"] \ {q}
        /\ PendingAcksElsewhere("A") ]_vars

\* C9, amended: as above, but an ACK removes the entry only while the transport
\* is running; an ACK received while running is false leaves pendingAcks as it
\* is, and the entry of a send that reported would_block is removed by the
\* handler the completion posts, when the io worker runs it.
C9_AckRemovesWhileRunning ==
    [][ /\ \A q \in AckSeqs("A") :
              ReceivesAck("A", q) =>
                  pendingAcks'["A"] = IF running["A"] THEN pendingAcks["A"] \ {q}
                                      ELSE pendingAcks["A"]
        /\ PendingAcksElsewhere("A") ]_vars

\* a MESSAGE waits for its ACK in a transport that is no longer running while
\* the io worker still receives
C9_Witness == pendingAcks["A"] # {} /\ ~running["A"] /\ IoRuns("A")

\* the counter of e advances by one, modulo 2^32, in a step that hands a
\* HOLE_PUNCH, MESSAGE or ACK frame to the socket, and a HOLE_PUNCH or MESSAGE
\* frame carries the value the counter had; a DISCONNECT frame does so when it
\* is built, and is the packet built before when it is sent again
CounterShared(e) ==
    /\ Produced(e, {HOLE_PUNCH, MESSAGE, ACK})' # {} =>
          nextSeqNumber'[e] = NextSeq(nextSeqNumber[e])
    /\ \A i \in Produced(e, {HOLE_PUNCH, MESSAGE})' :
          SeqOf(out'[i].data) = nextSeqNumber[e]
    /\ \A i \in Produced(e, {DISCONNECT})' :
          IF nextSeqNumber'[e] # nextSeqNumber[e]
          THEN /\ SeqOf(out'[i].data) = nextSeqNumber[e]
               /\ nextSeqNumber'[e] = NextSeq(nextSeqNumber[e])
          ELSE \E t \in Threads : loc[e][t] = out'[i].data

ConnectCalled(e) ==
    /\ netModule[e]
    /\ configured[e]
    /\ pc[e]["sig"] # "ci_connect"

PeerConnected(e) == NetworkEventData(PEER_CONNECTED, Peer(e))

\* C6: once both endpoints have called startListening and then connectToPeer
\* with the other's address, and the network delivers the frames in flight,
\* both transports eventually become connected; a transport that becomes
\* connected queues PEER_CONNECTED; a MESSAGE of A that reaches B hands its
\* payload to B's message callback byte for byte, and B's ACK for a sequence
\* removes that entry from A's pendingAcks.
C6_PairConnects ==
    /\ (ConnectCalled("A") /\ ConnectCalled("B")) ~> (connected["A"] /\ connected["B"])
    /\ [][ /\ \A e \in Ends :
                 ~connected[e] /\ connected'[e] =>
                     event_queue'[e] = queueEvent(event_queue[e], PeerConnected(e))
           /\ \A f \in BagToSet(net) :
                 /\ f.src = "A" /\ PacketTypeOf(f.data) = MESSAGE
                 /\ HandleReceiveFrom("B", f.data, f.src)
                 /\ running["B"]
                 => /\ Len(delivered') = 1
                    /\ delivered'[1].to = "B"
                    /\ delivered'[1].payload = SubSeq(f.data, HEADER_SIZE + 1, Len(f.data))
           /\ \A f \in BagToSet(net) :
                 /\ f.src = "B" /\ PacketTypeOf(f.data) = ACK
                 /\ HandleReceiveFrom("A", f.data, f.src)
                 /\ running["A"]
                 => SeqOf(f.data) \notin pendingAcks'["A"] ]_vars

\* B became connected through a hole punch of A that arrived before B called
\* connectToPeer, which then returned false: B sends no hole punch, A has sent
\* all of its train and nothing is in flight
C6_Witness ==
    /\ ConnectCalled("A") /\ ConnectCalled("B")
    /\ connected["B"] /\ ~connected["A"]
    /\ pc["A"]["sig"] = "idle" /\ pc["B"]["sig"] = "idle"
    /\ nextSeqNumber["B"] = ToU32(0)
    /\ net = EmptyBag


\* this step hands a DISCONNECT frame of A to the socket of B
DisconnectReaches ==
    \E f \in BagToSet(net) :
        /\ f.src = "A" /\ f.dst = "B" /\ PacketTypeOf(f.data) = DISCONNECT
        /\ HandleReceiveFrom("B", f.data, f.src)

\* C5: with A and B both CONNECTED, when A calls stopConnection and one of its
\* DISCONNECT frames reaches B, B sets connected = false and queues
\* ALL_PEERS_DISCONNECTED, the monitor of B brings B to IDLE, and A is IDLE as
\* well: both sides eventually are IDLE, whatever the order in which the
\* earlier HOLE_PUNCH and MESSAGE frames of A and the DISCONNECT frames reach B.
C5_BothReachIdle ==
    /\ [][DisconnectReaches /\ connected["B"] =>
              /\ ~connected'["B"]
              /\ event_queue'["B"] = Append(event_queue["B"], AllPeersDisconnected)]_vars
    /\ (pc["A"]["cli"] # "idle") ~> (current_state["A"] = IDLE)
    /\ Waiting("B", AllPeersDisconnected)
          ~> (current_state["A"] = IDLE /\ current_state["B"] = IDLE)

\* both sides are IDLE after A's /disconnect and B's monitor each ran
\* stopConnection, and a frame A sent before the DISCONNECT is still in flight
C5_Witness ==
    /\ current_state["A"] = IDLE /\ current_state["B"] = IDLE
    /\ stopped["A"] /\ stopped["B"]
    /\ pc["A"]["cli"] = "idle" /\ pc["B"]["mon"] # "psc_rest"
    /\ \E f \in BagToSet(net) : f.dst = "B" /\ PacketTypeOf(f.data) \in {HOLE_PUNCH, MESSAGE}

(***************************************************************************)
(* The keep-alive timer while the link is up                               *)
(***************************************************************************)
\* a wait of the keep-alive timer of e is pending or its handler is queued
TimerOn(e) == keepAliveTimer[e] # "off"

\* C11: in every state in which isConnected() is true the keep-alive timer is
\* armed, and each expiry while the link is up hands one HOLE_PUNCH for
\* peerEndpoint to the socket and arms the timer again: HOLE_PUNCH frames are
\* sent every tick for as long as the link flag stays true.
C11_KeepAliveWhileConnected ==
    /\ [](\A e \in Ends : (IoRuns(e) /\ connected[e]) => TimerOn(e))
    /\ [][\A e \in Ends :
            (KeepAliveRuns(e) /\ connected[e]) =>
                /\ out' = <<Frame(e, peerEndpoint[e],
                                  ControlPacket(HOLE_PUNCH, nextSeqNumber[e]))>>
                /\ keepAliveTimer'[e] = "armed"]_vars

\* the link came up on a hole punch of the peer that arrived before chat-init:
\* the transport's connectToPeer has returned false, the tunnel runs, and no
\* wait of the keep-alive timer was ever started
C11_Witness ==
    /\ IoRuns("A") /\ running["A"] /\ connected["A"]
    /\ ~TimerOn("A")
    /\ tun["A"] = "processing"
    /\ localVirtualIp["A"] # <<>> /\ pc["A"]["sig"] = "idle"

(***************************************************************************)
(* UDPNetwork::connectToPeer                                               *)
(***************************************************************************)
\* the signaling thread of e calls UDPNetwork::connectToPeer in this step
ConnectToPeerCalled(e) == pc[e]["sig"] = "ci_connect" /\ pc'[e]["sig"] # "ci_connect"

SendMessageCalled(e, packet) ==
    /\ IsIPv4Packet(packet) /\ ForwardsToPeer(e, packet)
    /\ HandlePacketFromTun(e, packet)

\* C13: sendMessage returns false without consuming a sequence number, adding
\* a pendingAcks entry or handing a frame to the socket when running is false
\* and when 16 + the payload length exceeds 65507 (a payload of 65491 bytes is
\* taken, one of 65492 bytes is refused); otherwise it returns true having
\* consumed exactly one sequence number, added exactly one pendingAcks entry and
\* handed exactly one MESSAGE frame to the socket.
C13_SendMessage ==
    [][\A e \in Ends : \A packet \in TunPackets \cup LargeTunPackets :
          SendMessageCalled(e, packet) =>
              IF ~running[e] \/ Len(packet) >= 65492
              THEN /\ ~sendMessageReturns(e, packet)
                   /\ nextSeqNumber'[e] = nextSeqNumber[e]
                   /\ pendingAcks'[e] = pendingAcks[e]
                   /\ out' = <<>>
              ELSE /\ sendMessageReturns(e, packet)
                   /\ Len(packet) <= 65491
                   /\ nextSeqNumber'[e] = AddU32(nextSeqNumber[e], 1)
                   /\ pendingAcks'[e] = pendingAcks[e] \cup {nextSeqNumber[e]}
                   /\ Cardinality(pendingAcks'[e]) = Cardinality(pendingAcks[e]) + 1
                   /\ Len(out') = 1
                   /\ out'[1].src = e /\ out'[1].dst = peerEndpoint[e]
                   /\ PacketTypeOf(out'[1].data) = MESSAGE
                   /\ SeqOf(out'[1].data) = nextSeqNumber[e]
                   /\ Len(out'[1].data) = HEADER_SIZE + Len(packet)]_vars

\* the second packet of the session was taken: its MESSAGE frame was handed
\* to the socket and both sequence numbers wait for their acknowledgements
C13_Witness ==
    /\ Len(out) = 1
    /\ out[1].src = "A" /\ PacketTypeOf(out[1].data) = MESSAGE
    /\ TunPacketOf(out[1].data) = IPv4Packet(CLIENT_IP, HOST_IP)
    /\ SeqOf(out[1].data) \in pendingAcks["A"]
    /\ Cardinality(pendingAcks["A"]) = 2

(***************************************************************************)
(* Datagrams that fail validation                                          *)
(***************************************************************************)
\* the type bytes PacketType names
KnownTypes == {HOLE_PUNCH, HEARTBEAT, MESSAGE, ACK, DISCONNECT}

\* the datagram fails validation: shorter than a header, wrong magic, wrong
\* version, unknown type byte, or a MESSAGE with 16 + msg_len beyond its length
FailsValidation(data) ==
    \/ Len(data) < HEADER_SIZE
    \/ U32At(data, 0) # ToU32(MAGIC_NUMBER)
    \/ U16At(data, 4) # PROTOCOL_VERSION
    \/ PacketTypeOf(data) \notin KnownTypes
    \/ /\ PacketTypeOf(data) = MESSAGE
       /\ HEADER_SIZE + MsgLenOf(data)[1] * U16Modulus + MsgLenOf(data)[2] > Len(data)

\* C14: a received datagram that fails validation is dropped with no state
\* change: the connected flag, peerEndpoint, last_activity and pendingAcks are
\* as before, no event is queued, no ACK is sent and the message callback is
\* not invoked.
C14_InvalidDatagramDropped ==
    [][\A e \in Ends : \A sender \in Ends \cup {Stranger} :
       \A data \in MalformedDatagrams \cup ControlDatagrams :
          (FailsValidation(data) /\ HandleReceiveFrom(e, data, sender)) =>
              /\ connected'[e] = connected[e]
              /\ peerEndpoint'[e] = peerEndpoint[e]
              /\ elapsed'[e] = elapsed[e]
              /\ pendingAcks'[e] = pendingAcks[e]
              /\ event_queue'[e] = event_queue[e]
              /\ out' = <<>>
              /\ delivered' = <<>>]_vars

\* the link is up towards the third party, whose datagrams all fail
\* validation, and the monitor has started the tunnel for it
C14_Witness ==
    /\ connected["A"] /\ peerEndpoint["A"] = Stranger
    /\ current_state["A"] = CONNECTED /\ tun["A"] = "processing"

(***************************************************************************)
(* UDPNetwork::stopConnection                                              *)
(***************************************************************************)
\* thread t of e is inside UDPNetwork::stopConnection
InStopConnection(e, t) == pc[e][t] \in {"usc_send", "usc_flags"}

\* thread t of e calls UDPNetwork::stopConnection in this step
StopConnectionCalled(e, t) == ~InStopConnection(e, t) /\ InStopConnection(e, t)'

\* thread t of e sends again inside sendDisconnectNotification in this step
DisconnectResent(e, t) == pc[e][t] = "usc_send" /\ cnt'[e][t] # cnt[e][t]

\* thread t of e returns from UDPNetwork::stopConnection in this step
StopConnectionReturns(e, t) == pc[e][t] = "usc_flags" /\ pc'[e][t] # "usc_flags"

\* the DISCONNECT frames e hands to its socket in this step
DisconnectsSent(e) ==
    { i \in 1..Len(out') : out'[i].src = e /\ out'[i].dst = peerEndpoint[e]
                           /\ PacketTypeOf(out'[i].data) = DISCONNECT }

\* C15: UDPNetwork::stopConnection called on a link that is up sends three
\* DISCONNECT frames to peerEndpoint, then clears the connected flag, cancels
\* the keep-alive timer and sets the state to IDLE; the DISCONNECT frames are
\* handed to the socket before connected is cleared, and no frame of any type
\* is handed to the socket after it.
C15_StopConnectionOrder ==
    /\ [][\A e \in Ends : \A t \in Threads :
            /\ (StopConnectionCalled(e, t) /\ connected[e]) =>
                   /\ Cardinality(DisconnectsSent(e)) = 1 /\ Len(out') = 1
                   /\ cnt'[e][t] = 2
            /\ DisconnectResent(e, t) =>
                   /\ Cardinality(DisconnectsSent(e)) = 1 /\ Len(out') = 1
                   /\ cnt[e][t] \in 1..2
            /\ StopConnectionReturns(e, t) =>
                   /\ cnt[e][t] = 0
                   /\ ~connected'[e]
                   /\ keepAliveTimer'[e] \notin {"armed", "fired+armed"}
                   /\ current_state'[e] = IDLE
                   /\ out' = <<>>]_vars
    /\ [](\A e \in Ends : stopped[e] => \A i \in 1..Len(out) : out[i].src # e)

\* stopConnection has returned, the link flag is clear, and the hole-punch
\* train of the attempt made before it hands a HOLE_PUNCH to the socket
C15_Witness ==
    /\ stopped["A"] /\ ~connected["A"] /\ ~running["A"]
    /\ Produced("A", {HOLE_PUNCH}) # {}

(***************************************************************************)
(* stopConnection called twice                                             *)
(***************************************************************************)
\* thread t of e takes a step of UDPNetwork::stopConnection or of the rest of
\* P2PSystem::stopConnection
StopConnectionStep(e, t) ==
    \/ StopConnectionCalled(e, t)
    \/ StopConnectionReturns(e, t)
    \/ pc[e][t] = "psc_rest" /\ pc'[e][t] # "psc_rest"

\* a stopConnection of e has returned, no connection attempt was begun since
\* and the tunnel is stopped
StoppedBefore(e) == stopped[e] /\ tun[e] # "processing"

EventTaken(e) == Len(event_queue'[e]) < Len(event_queue[e])

\* queueEvent of e accepts an event in this step
EventQueued(e) == Len(event_queue'[e]) > Len(event_queue[e])

\* C17: getNextEvent returns the queued events in exactly the order in which
\* queueEvent accepted them, each event exactly once, and returns empty exactly
\* when the queue is empty, for every interleaving of the queueEvent calls of
\* the I/O worker with the getNextEvent calls of the monitor; the monitor handles
\* the events in that same order.
C17_EventsInOrder ==
    [][\A e \in Ends :
          LET q == event_queue[e]
              ev == Head(q).event
              mon == pc[e]["mon"]
          IN  /\ EventQueued(e) =>
                     /\ Len(event_queue'[e]) = Len(q) + 1
                     /\ SubSeq(event_queue'[e], 1, Len(q)) = q
              /\ EventTaken(e) =>
                     /\ mon = "drain"
                     /\ event_queue'[e] = Tail(q)
                     /\ CASE ev = PEER_CONNECTED /\ current_state[e] = CONNECTING
                                 /\ CanStartNetworkInterface(e) ->
                               current_state'[e] = CONNECTED /\ tun'[e] = "processing"
                          [] ev = PEER_CONNECTED /\ current_state[e] = CONNECTING
                                 /\ ~CanStartNetworkInterface(e) ->
                               InStopConnection(e, "mon")'
                          [] ev = ALL_PEERS_DISCONNECTED /\ current_state[e] = CONNECTED ->
                               InStopConnection(e, "mon")'
                          [] OTHER ->
                               /\ pc'[e]["mon"] = "drain"
                               /\ current_state'[e] = current_state[e]
                               /\ tun'[e] = tun[e]
              /\ (mon = "drain" /\ pc'[e]["mon"] = "idle") => q = <<>>
              /\ (mon = "drain" /\ pc'[e]["mon"] # "drain" /\ q = <<>>) =>
                     /\ pc'[e]["mon"] = "idle"
                     /\ event_queue'[e] = q
              /\ (event_queue'[e] # q) => (EventQueued(e) \/ EventTaken(e))]_vars

\* the I/O worker queued PEER_CONNECTED and then ALL_PEERS_DISCONNECTED while
\* the monitor, in its loop, has taken neither
C17_Witness ==
    /\ event_queue["A"] = <<NetworkEventData(PEER_CONNECTED, Peer("A")), AllPeersDisconnected>>
    /\ pc["A"]["mon"] = "drain"
    /\ current_state["A"] = CONNECTING

\* the destination address of a packet, bytes 16..19, as its four octets
DestinationOf(packet) == SubSeq(packet, 17, 20)

\* the packets the outbound bridge is to pass to the transport
OutboundPasses(e, packet) ==
    /\ Len(packet) >= 20
    /\ packet[1] \div 16 = 4
    /\ \/ DestinationOf(packet) = peerVirtualIp[e]
       \/ DestinationOf(packet) = <<10, 0, 0, 255>>
       \/ DestinationOf(packet) = <<255, 255, 255, 255>>
       \/ DestinationOf(packet)[1] \in 224..239

\* the step took the packet to the transport: one MESSAGE frame that carries
\* it left for the peer under the next sequence number
ReachedTransport(e, packet) ==
    /\ Len(out') = 1
    /\ out'[1].dst = peerEndpoint[e]
    /\ PacketTypeOf(out'[1].data) = MESSAGE
    /\ SeqOf(out'[1].data) = nextSeqNumber[e]
    /\ SubSeq(out'[1].data, HEADER_SIZE + 1, Len(out'[1].data)) = packet
    /\ nextSeqNumber'[e] = AddU32(nextSeqNumber[e], 1)

\* the step left the transport alone
NeverReachedTransport(e) ==
    /\ out' = <<>>
    /\ nextSeqNumber'[e] = nextSeqNumber[e]
    /\ pendingAcks'[e] = pendingAcks[e]

\* C18: handlePacketFromTun passes a packet to sendMessage exactly when the
\* packet has at least 20 bytes, its first nibble is 4 and its destination
\* (bytes 16..19) is peer_virtual_ip, 10.0.0.255 or 255.255.255.255 or lies in
\* 224.0.0.0/4; every other packet is dropped and never reaches the transport,
\* and a forwarded packet is passed unmodified. With peer 10.0.0.2 a packet to
\* 224.0.2.60 is forwarded and a packet to 10.0.0.3 is dropped.
C18_OutboundBridge ==
    [][\A e \in Ends : \A packet \in BridgePackets :
          HandlePacketFromTun(e, packet) =>
              /\ IF OutboundPasses(e, packet)
                 THEN ReachedTransport(e, packet)
                 ELSE NeverReachedTransport(e)
              /\ peerVirtualIp[e] = <<10, 0, 0, 2>> =>
                    /\ packet = IPv4Packet(HOST_IP, <<224, 0, 2, 60>>) => ReachedTransport(e, packet)
                    /\ packet = IPv4Packet(HOST_IP, <<10, 0, 0, 3>>) => NeverReachedTransport(e)]_vars

\* the host, whose peer is 10.0.0.2, has just forwarded a packet to 224.0.2.60
C18_Witness ==
    /\ isHost["A"] /\ peerVirtualIp["A"] = <<10, 0, 0, 2>>
    /\ tun["A"] = "processing"
    /\ Len(out) = 1
    /\ out[1].data = MessagePacket(ToU32(HolePunchCount), IPv4Packet(HOST_IP, <<224, 0, 2, 60>>))
    /\ ToU32(HolePunchCount) \in pendingAcks["A"]

\* the payloads the inbound bridge is to put on the tunnel's queue
InboundPasses(e, payload) ==
    /\ Len(payload) >= 20
    /\ payload[1] \div 16 = 4
    /\ \/ DestinationOf(payload) = localVirtualIp[e]
       \/ DestinationOf(payload) = <<10, 0, 0, 255>>
       \/ DestinationOf(payload) = <<255, 255, 255, 255>>
       \/ DestinationOf(payload)[1] \in 224..239

\* C19: while the tunnel is processing packets, handleNetworkData enqueues a
\* payload to the tunnel exactly when the payload has at least 20 bytes, its
\* first nibble is 4 and its destination is local_virtual_ip, 10.0.0.255 or
\* 255.255.255.255 or lies in 224.0.0.0/4; every buffer accepted inbound has
\* length >= 20 and version nibble 4, and it is enqueued unmodified.
C19_InboundBridge ==
    [][\A e \in Ends :
          Len(delivered') = 1 /\ delivered'[1].to = e /\ tun[e] = "processing" =>
              LET payload == delivered'[1].payload
                  queued == delivered'[1].toTun
              IN  /\ queued = IF InboundPasses(e, payload) THEN <<payload>> ELSE <<>>
                  /\ \A i \in 1..Len(queued) :
                        Len(queued[i]) >= 20 /\ queued[i][1] \div 16 = 4]_vars

\* the client 10.0.0.2, its tunnel processing packets, has just put the
\* peer's packet to 224.0.2.60 on the tunnel's queue
C19_Witness ==
    /\ tun["A"] = "processing"
    /\ localVirtualIp["A"] = <<10, 0, 0, 2>>
    /\ Len(delivered) = 1
    /\ delivered[1].payload = IPv4Packet(HOST_IP, <<224, 0, 2, 60>>)
    /\ delivered[1].toTun = <<IPv4Packet(HOST_IP, <<224, 0, 2, 60>>)>>

\* the four bytes of a 32-bit value, most significant first
BigEndian(v) == << v[1] \div 256, v[1] % 256, v[2] \div 256, v[2] % 256 >>

\* the frame layout: magic 0x12345678, version 1, the type byte, a reserved
\* byte 0, the sequence number, msg_len, the payload
ExpectedFrame(packetType, seq, payload) ==
    <<18, 52, 86, 120, 0, 1, packetType, 0>>
        \o BigEndian(seq) \o BigEndian(ToU32(Len(payload))) \o payload

\* what processReceivedData reads from the bytes
ParsesTo(data, packetType, seq, payload) ==
    /\ ValidHeader(data)
    /\ PacketTypeOf(data) = packetType
    /\ SeqOf(data) = seq
    /\ packetType = MESSAGE => MsgLenOk(data) /\ TunPacketOf(data) = payload

\* the step is an accepted call of sendMessage by e with dataToSend
FrameBuilt(e, dataToSend) ==
    /\ pendingAcks'[e] # pendingAcks[e]
    /\ SendMessageCall(e, dataToSend)

\* the step is processReceivedData of e handing a payload to the callback
FrameParsed(e) == Len(delivered') = 1 /\ delivered'[1].to = e

\* C20: for every sequence number and every payload of 0..65491 bytes the
\* bytes built by sendMessage/attachCustomHeader (magic 0x12345678, version 1,
\* type, reserved 0, big-endian sequence, big-endian msg_len, payload) are
\* parsed by processReceivedData back to the same type, sequence and payload;
\* MESSAGE with seq 7 and payload AA BB is the 18 bytes
\* 12 34 56 78 00 01 03 00 00 00 00 07 00 00 00 02 AA BB; the control frames
\* HOLE_PUNCH, ACK and DISCONNECT are 16 bytes with msg_len 0.
C20_FrameRoundTrip ==
    [][/\ \A dataToSend \in CodecPayloads :
            FrameBuilt("A", dataToSend) =>
                /\ Len(out') = 1
                /\ out'[1].data = ExpectedFrame(MESSAGE, nextSeqNumber["A"], dataToSend)
                /\ ParsesTo(out'[1].data, MESSAGE, nextSeqNumber["A"], dataToSend)
                /\ nextSeqNumber["A"] = ToU32(7) /\ dataToSend = <<170, 187>> =>
                      out'[1].data = <<18, 52, 86, 120, 0, 1, 3, 0, 0, 0, 0, 7, 0, 0, 0, 2, 170, 187>>
       /\ FrameParsed("B") =>
            /\ Len(out') = 1
            /\ \E f \in BagToSet(net) :
                  /\ f.src = "A" /\ f.dst = "B"
                  /\ f.data = ExpectedFrame(MESSAGE, SeqOf(f.data), delivered'[1].payload)
                  /\ out'[1].data = ExpectedFrame(ACK, SeqOf(f.data), <<>>)
       /\ \A f \in BagToSet(net') :
            PacketTypeOf(f.data) \in ControlTypes =>
                /\ Len(f.data) = 16
                /\ MsgLenOf(f.data) = ToU32(0)
                /\ f.data = ExpectedFrame(PacketTypeOf(f.data), SeqOf(f.data), <<>>)
                /\ ParsesTo(f.data, PacketTypeOf(f.data), SeqOf(f.data), <<>>)]_vars

\* sendMessage, its counter at 7, has just built the frame of the payload
\* AA BB: the 18 bytes are on their way and 7 waits for its acknowledgement
C20_Witness ==
    /\ Len(out) = 1
    /\ out[1].data = <<18, 52, 86, 120, 0, 1, 3, 0, 0, 0, 0, 7, 0, 0, 0, 2, 170, 187>>
    /\ ToU32(7) \in pendingAcks["A"]
    /\ nextSeqNumber["A"] = ToU32(8)

\* the peer-init callback runs and configureInterface reports failure
ConfigureFails(e) ==
    \E r \in NetshResults :
        ~configureInterface(r) /\ SigChatInit(e, Peer(e), configureInterface(r))

\* C21: a failure reported by the route/firewall applier never aborts the
\* connection: when the peer-init callback runs and configureInterface reports
\* failure, transport.connectToPeer is still invoked and hole punching starts.
C21_ConfigureFailureGoesOn ==
    [][\A e \in Ends : ConfigureFails(e) => pc'[e]["sig"] = "ci_connect"]_vars

\* handleConnectionInit has returned after configureInterface reported
\* failure: no endpoint was set, no hole punch left, no timer was armed
C21_Witness ==
    /\ pc["A"]["main"] = "up" /\ pc["A"]["sig"] = "idle"
    /\ localVirtualIp["A"] = CLIENT_IP /\ ~configured["A"]
    /\ peerEndpoint["A"] = NoEndpoint
    /\ nextSeqNumber["A"] = ToU32(0)
    /\ keepAliveTimer["A"] = "off"
    /\ ~connected["A"]

\* the two addresses of the virtual network, by role
RoleAddresses(host) ==
    IF host THEN <<HOST_IP, CLIENT_IP>> ELSE <<CLIENT_IP, HOST_IP>>

NewPeerInit(e) == pc[e]["sig"] = "ci_connect" /\ HeadersAttached(e) >= HolePunchCount

\* the session is up
SessionUp(e) ==
    /\ connected[e]
    /\ current_state[e] = CONNECTED
    /\ tun[e] = "processing"
    /\ keepAliveTimer[e] = "armed"

\* C23: stop_connection is reusable: after a session was ended by
\* P2PSystem::stopConnection (state IDLE), a new peer-init followed by valid
\* frames from the peer leads to the transport connected, PEER_CONNECTED
\* handled, the tunnel processing packets, the keep-alive timer armed and the
\* state CONNECTED, whatever the previous session left behind.
C23_Reusable == NewPeerInit("A") ~> SessionUp("A")

\* the user ended the first session while its PEER_CONNECTED was still
\* queued; the monitor handled it after the second chat-init, found the link
\* down and stopped the connection: the second train is over, the transport
\* does not run and the peer's frames change nothing
C23_Witness ==
    /\ HeadersAttached("A") >= 2 * HolePunchCount
    /\ pc["A"] = [t \in Threads |-> IF t = "main" THEN "up" ELSE "idle"]
    /\ current_state["A"] = IDLE
    /\ ~running["A"] /\ ~connected["A"]
    /\ event_queue["A"] = <<>>
    /\ tun["A"] = "ready"

\* the PEER_CONNECTED events in queue q
PeerConnectedIn(q) == { i \in 1..Len(q) : q[i].event = PEER_CONNECTED }

\* the valid frames that are not DISCONNECT frames, of every type
LinkFrames ==
    { ControlPacket(t, RemoteSeq) : t \in {HOLE_PUNCH, HEARTBEAT, ACK} }
      \cup { MessagePacket(RemoteSeq, <<>>), PaddedMessage }

\* C24: a valid non-DISCONNECT frame received while running with the link
\* flag false makes the sender the peer endpoint, sets connected and queues
\* exactly one PEER_CONNECTED carrying that endpoint; a valid frame received
\* while connected queues no PEER_CONNECTED and leaves the peer endpoint; no
\* step queues a PEER_CONNECTED unless it takes the flag from false to true, so
\* between two PEER_CONNECTED events the flag was cleared.
C24_FirstFrameConnects ==
    [][\A e \in Ends :
        /\ Cardinality(PeerConnectedIn(event_queue'[e])) > Cardinality(PeerConnectedIn(event_queue[e]))
           => /\ ~connected[e] /\ connected'[e]
              /\ running[e]
              /\ event_queue'[e] = Append(event_queue[e],
                                          [event |-> PEER_CONNECTED, data |-> peerEndpoint'[e]])
        /\ peerEndpoint'[e] # peerEndpoint[e] /\ pc[e]["sig"] # "ci_connect"
           => ~connected[e] /\ connected'[e]
        /\ ~connected[e] /\ connected'[e]
           => \E sender \in {Peer(e), Stranger} : \E data \in LinkFrames :
                 /\ HandleReceiveFrom(e, data, sender)
                 /\ running[e]
                 /\ peerEndpoint'[e] = sender
                 /\ event_queue'[e] = Append(event_queue[e],
                                             [event |-> PEER_CONNECTED, data |-> sender])
        /\ ~connected[e] /\ ~connected'[e] /\ running[e]
           => \A sender \in {Peer(e), Stranger} : \A data \in LinkFrames :
                 ~HandleReceiveFrom(e, data, sender)
    ]_vars

\* the link came up on a frame of the third party after the peer's DISCONNECT
\* had cleared the flag: two PEER_CONNECTED events are queued, the second
\* carries the third party's endpoint
C24_Witness ==
    /\ connected["A"] /\ running["A"]
    /\ peerEndpoint["A"] = Stranger
    /\ Len(event_queue["A"]) = 2
    /\ event_queue["A"][1] = [event |-> PEER_CONNECTED, data |-> Peer("A")]
    /\ event_queue["A"][2] = [event |-> PEER_CONNECTED, data |-> Stranger]

\* UDPNetwork::connectToPeer has never been called on the transport of e:
\* its first call attaches the first header
MerelyListening(e) == ioRunning[e] /\ running[e] /\ nextSeqNumber[e] = ToU32(0)

\* C25: the link flag becomes true only after connectToPeer has been called:
\* a valid frame received while the transport is merely listening
\* (startListening done, connectToPeer never called) does not set connected
\* and does not queue PEER_CONNECTED.
C25_ConnectedOnlyFromConnecting ==
    \A e \in Ends :
        MerelyListening(e) => ~connected[e] /\ PeerConnectedIn(event_queue[e]) = {}

\* the transport went from listening to connected on the peer's HOLE_PUNCH:
\* no chat-init was handled, the state is IDLE, PEER_CONNECTED is queued
C25_Witness ==
    /\ MerelyListening("A")
    /\ connected["A"] /\ peerEndpoint["A"] = Peer("A")
    /\ current_state["A"] = IDLE
    /\ localVirtualIp["A"] = <<>>
    /\ pc["A"]["sig"] = "idle"
    /\ event_queue["A"] = <<[event |-> PEER_CONNECTED, data |-> Peer("A")]>>

\* the valid DISCONNECT frame
DisconnectFrame == ControlPacket(DISCONNECT, RemoteSeq)

\* C26: a valid DISCONNECT frame received while connected clears the link
\* flag and queues ALL_PEERS_DISCONNECTED, also when running is already false;
\* a DISCONNECT frame never sets the flag, never queues PEER_CONNECTED and
\* never rebinds the peer endpoint; received while the flag is false it queues
\* nothing, so three of them in a row queue one ALL_PEERS_DISCONNECTED.
C26_DisconnectFrame ==
    [][\A e \in Ends : \A sender \in {Peer(e), Stranger} :
        HandleReceiveFrom(e, DisconnectFrame, sender)
        => /\ ~connected'[e]
           /\ peerEndpoint'[e] = peerEndpoint[e]
           /\ running'[e] = running[e]
           /\ event_queue'[e] = IF connected[e]
                                THEN Append(event_queue[e],
                                            [event |-> ALL_PEERS_DISCONNECTED, data |-> ""])
                                ELSE event_queue[e]
    ]_vars

\* the user's stopConnection had cleared the link flag, a hole punch of the
\* third party set it again, stopConnection cleared running and returned; the
\* DISCONNECT frame then cleared the flag and queued ALL_PEERS_DISCONNECTED
\* behind the PEER_CONNECTED, and left the endpoint with the third party
C26_Witness ==
    /\ ~running["A"] /\ ~connected["A"]
    /\ stopped["A"] /\ pc["A"]["cli"] = "idle"
    /\ peerEndpoint["A"] = Stranger
    /\ event_queue["A"] = <<[event |-> PEER_CONNECTED, data |-> Stranger],
                            [event |-> ALL_PEERS_DISCONNECTED, data |-> ""]>>

\* the valid MESSAGE frames with the payload each announces
MessageFrames ==
    { [frame |-> MessagePacket(RemoteSeq, <<>>), payload |-> <<>>],
      [frame |-> PaddedMessage, payload |-> <<69, 0>>] }

\* the valid frames of the other four types
OtherFrames == { ControlPacket(t, RemoteSeq) : t \in {HOLE_PUNCH, HEARTBEAT, ACK, DISCONNECT} }

\* frame f is an ACK frame from e to endpoint dst that carries the sequence
\* bytes of the received data
IsAckFor(f, e, dst, data) ==
    /\ f.src = e /\ f.dst = dst
    /\ Len(f.data) = 16
    /\ ValidHeader(f.data)
    /\ f.data[7] = 4
    /\ SubSeq(f.data, 9, 12) = SubSeq(data, 9, 12)

\* C27: for every valid MESSAGE frame received while running the transport
\* sends exactly one ACK frame with the same sequence number to the frame's
\* sender and invokes the message callback once with exactly the msg_len
\* payload bytes; HOLE_PUNCH, HEARTBEAT, ACK and DISCONNECT frames produce no
\* ACK and no callback invocation.
C27_AckAndCallback ==
    [][\A e \in Ends : \A sender \in {Peer(e), Stranger} :
        /\ \A m \in MessageFrames :
              running[e] /\ HandleReceiveFrom(e, m.frame, sender)
              => /\ Len(out') = 1
                 /\ IsAckFor(out'[1], e, sender, m.frame)
                 /\ Len(delivered') = 1
                 /\ delivered'[1].to = e
                 /\ delivered'[1].payload = m.payload
        /\ \A data \in OtherFrames :
              HandleReceiveFrom(e, data, sender) => out' = <<>> /\ delivered' = <<>>
    ]_vars

\* the link is up towards the third party and a padded MESSAGE frame of the
\* peer was received: the ACK went to the peer, the callback got two bytes
C27_Witness ==
    /\ running["A"] /\ connected["A"] /\ peerEndpoint["A"] = Stranger
    /\ Len(out) = 1 /\ out[1].dst = Peer("A") /\ out[1].data[7] = 4
    /\ Len(delivered) = 1 /\ delivered[1].payload = <<69, 0>>

\* a receive of e completes with the error in this step
ReceiveCompletesWith(e, error) == HandleReceiveError(e, error)

\* C28: on a receive completion with WouldBlock/TryAgain the receive is
\* re-armed and the connection state is unchanged; with OperationAborted the
\* receive is not re-armed and nothing else changes; with any other error the
\* transport clears connected, queues ALL_PEERS_DISCONNECTED and does not
\* re-arm the receive.
C28_ReceiveErrors ==
    [][\A e \in Ends :
        /\ \A error \in {"would_block", "try_again"} :
              ReceiveCompletesWith(e, error)
              => /\ receiving'[e]
                 /\ connected'[e] = connected[e] /\ running'[e] = running[e]
                 /\ event_queue'[e] = event_queue[e]
        /\ ReceiveCompletesWith(e, "operation_aborted")
           => /\ ~receiving'[e]
              /\ connected'[e] = connected[e] /\ running'[e] = running[e]
              /\ event_queue'[e] = event_queue[e]
        /\ ReceiveCompletesWith(e, "fatal")
           => /\ ~receiving'[e]
              /\ ~connected'[e]
              /\ connected[e] => event_queue'[e] = Append(event_queue[e],
                                     [event |-> ALL_PEERS_DISCONNECTED, data |-> ""])
    ]_vars

\* a receive of the connected transport completed with a fatal error: the
\* link flag is cleared, ALL_PEERS_DISCONNECTED is queued, and the next
\* receive is outstanding on the open socket
C28_Witness ==
    /\ IoRuns("A") /\ receiving["A"] /\ running["A"]
    /\ ~connected["A"] /\ peerEndpoint["A"] = Peer("A")
    /\ event_queue["A"] = <<[event |-> ALL_PEERS_DISCONNECTED, data |-> ""]>>
    /\ pc["A"]["cli"] = "idle" /\ ~stopped["A"]

\* the completion of the send of a MESSAGE of e reports the error in this step
MessageSendCompletesWith(e, seq, error) == HandleSendComplete(e, seq, error)

\* the completion of the send of a frame without payload reports the error
ControlSendCompletesWith(e, ptype, error) == HandleControlSendComplete(e, ptype, error)

\* the step changes nothing of the transport and queues no event
TransportUntouched(e) ==
    /\ connected'[e] = connected[e] /\ running'[e] = running[e]
    /\ pendingAcks'[e] = pendingAcks[e]
    /\ event_queue'[e] = event_queue[e]
    /\ current_state'[e] = current_state[e]
    /\ out' = <<>>

MonitorHandles(e, ev) ==
    /\ event_queue[e] # <<>>
    /\ Head(event_queue[e]).event = ev
    /\ MonitorHandle(e)

\* the monitor of e is inside the stopConnection it called
MonitorStops(e) == pc[e]["mon"] \in {"usc_send", "usc_flags", "psc_rest"}

\* C30: the state becomes CONNECTED only in the step in which the monitor
\* handles PEER_CONNECTED in state CONNECTING and startNetworkInterface
\* succeeds (the peer is connected, tunnel packet processing is started); when
\* it fails the monitor calls stopConnection, the step leaves the state and
\* the tunnel alone, and stopConnection returns in state IDLE with the tunnel
\* not processing (while no shutdown has stored SHUTTING_DOWN, which is
\* terminal); a PEER_CONNECTED handled in IDLE, CONNECTED or SHUTTING_DOWN
\* changes neither the state nor the tunnel and calls nothing.
C30_PeerConnected ==
    [][\A e \in Ends :
        /\ current_state'[e] = CONNECTED /\ current_state[e] # CONNECTED
           => /\ MonitorHandles(e, PEER_CONNECTED)
              /\ current_state[e] = CONNECTING
              /\ connected[e]
              /\ tun[e] = "ready" /\ tun'[e] = "processing"
        /\ MonitorHandles(e, PEER_CONNECTED) /\ current_state[e] = CONNECTING
           => \/ /\ current_state'[e] = CONNECTED /\ tun'[e] = "processing"
                 /\ pc'[e]["mon"] = "drain"
              \/ /\ ~(connected[e] /\ tun[e] = "ready")
                 /\ MonitorStops(e)'
                 /\ ret'[e]["mon"] = "psc_rest"
                 /\ current_state'[e] = CONNECTING /\ tun'[e] = tun[e]
        /\ pc[e]["mon"] = "psc_rest" /\ pc'[e]["mon"] # "psc_rest"
           => /\ current_state[e] # SHUTTING_DOWN => current_state'[e] = IDLE
              /\ tun'[e] # "processing"
        /\ \A s \in {IDLE, CONNECTED, SHUTTING_DOWN} :
              MonitorHandles(e, PEER_CONNECTED) /\ current_state[e] = s
              => /\ current_state'[e] = s
                 /\ tun'[e] = tun[e]
                 /\ pc'[e]["mon"] = "drain"
    ]_vars

\* the monitor found PEER_CONNECTED in state CONNECTING with the peer no
\* longer connected: it has called stopConnection, the state is still
\* CONNECTING and the tunnel was not started
C30_Witness ==
    /\ pc["A"]["mon"] = "usc_flags" /\ ret["A"]["mon"] = "psc_rest"
    /\ current_state["A"] = CONNECTING /\ tun["A"] = "ready"
    /\ ~connected["A"] /\ running["A"]
    /\ event_queue["A"] = <<[event |-> ALL_PEERS_DISCONNECTED, data |-> ""]>>
    /\ pc["A"]["main"] = "up"

\* the monitor of e took SHUTDOWN_REQUESTED from the queue and runs shutdown
MonitorShutsDown(e) == pc[e]["mon"] = "sd_state"

\* shutdown has run to completion and the monitor thread has ended
ShutdownCompleted(e) ==
    /\ current_state[e] = SHUTTING_DOWN
    /\ tun[e] = "closed"
    /\ ~running[e] /\ ~connected[e] /\ ~ioRunning[e]
    /\ monitor[e] \in {"exited", "joined"}
    /\ Alive(e)

Quiet(e) == \A t \in {"cli", "sig", "mon"} : pc[e][t] = "idle"

\* C32: P2PSystem::stopConnection called in CONNECTED or in CONNECTING and
\* run to its return leaves the transport not connected, the tunnel not
\* processing packets, the interface configuration of the preceding
\* peer-init reset and the state IDLE.
C32_StopConnectionResets ==
    \A e \in Ends :
        Quiet(e) /\ pc[e]["main"] = "up" /\ current_state[e] \in {CONNECTING, CONNECTED}
        => LET r == SysStopConnection(StopFields(e))
           IN  /\ ~r.connected
               /\ r.tun # "processing"
               /\ ~r.configured
               /\ r.state = IDLE

\* stopConnection, called by the user while the first attempt was
\* CONNECTING, has returned: the state is IDLE, the tunnel never processed
\* packets, and the interface configuration of the peer-init is still there
C32_Witness ==
    /\ pc["A"]["cli"] = "idle" /\ pc["A"]["sig"] = "idle" /\ pc["A"]["mon"] = "idle"
    /\ stopped["A"] /\ current_state["A"] = IDLE
    /\ ~connected["A"] /\ ~running["A"] /\ tun["A"] = "ready"
    /\ configured["A"]
    /\ event_queue["A"] = <<>>

\* initialize of e returns with the outcome in this step
InitializeEnds(e, outcome) == Initialize(e, outcome)

\* C33: initialize runs STUN discovery, signaling connect and register,
\* tunnel initialization, transport construction with startListening and the
\* monitor start in this order; when STUN, the signaling connect, the tunnel
\* initialization or startListening fails, nothing of a later step exists when
\* it returns, it returns false, and the monitor thread is started by nothing
\* but an initialize whose every step succeeded.
C33_InitializeOrder ==
    [][\A e \in Ends :
        /\ \A outcome \in {"stun_failed", "signaling_failed"} :
              InitializeEnds(e, outcome)
              => /\ tun'[e] = "none" /\ ~netModule'[e] /\ ~running'[e] /\ ~ioRunning'[e]
                 /\ monitor'[e] = "none" /\ pc'[e]["main"] = "failed"
        /\ InitializeEnds(e, "tun_failed")
           => /\ tun'[e] = "closed" /\ ~netModule'[e] /\ ~running'[e] /\ ~ioRunning'[e]
              /\ monitor'[e] = "none" /\ pc'[e]["main"] = "failed"
        /\ InitializeEnds(e, "listen_failed")
           => /\ tun'[e] = "ready" /\ netModule'[e] /\ ~running'[e] /\ ~ioRunning'[e]
              /\ monitor'[e] = "none" /\ pc'[e]["main"] = "failed"
        /\ InitializeEnds(e, "ok")
           => /\ tun'[e] = "ready" /\ netModule'[e] /\ running'[e] /\ ioRunning'[e]
              /\ monitor'[e] = "running" /\ pc'[e]["main"] = "up"
        /\ monitor'[e] # "none" /\ monitor[e] = "none" => InitializeEnds(e, "ok")
        /\ pc[e]["mon"] # pc'[e]["mon"] => monitor[e] # "none"
    ]_vars

\* initialize failed at startListening: the tunnel and the transport exist,
\* the transport does not listen, there is no monitor thread, and shutdown
\* (the destructor's) has begun
C33_Witness ==
    /\ tun["A"] = "ready" /\ netModule["A"] /\ ~running["A"] /\ ~ioRunning["A"]
    /\ monitor["A"] = "none" /\ pc["A"]["mon"] = "idle"
    /\ pc["A"]["main"] = "sd_state"

\* the payloads the message callback of e received in a step
CallbackPayloads(e) ==
    [i \in 1..Len(SelectSeq(delivered', LAMBDA d : d.to = e)) |->
        SelectSeq(delivered', LAMBDA d : d.to = e)[i].payload]

\* the tags of queue q grow from its front to its back
ArrivalOrder(q) == \A i, j \in 1..Len(q) : i < j => TagOf(q[i]) < TagOf(q[j])

\* C34: the payload of a MESSAGE frame received from the socket is handed to
\* the message callback in the step that receives it, a payload the callback
\* passes on goes to the back of the tunnel's queue once, the send thread
\* writes the packet at the front of the queue and removes it, and no other
\* step changes the queue but the stop of the tunnel that empties it; so the
\* payloads wait in the queue and leave it in the order of their arrival
C34_ArrivalOrder ==
    [][\A e \in Ends :
        LET q == outgoingPackets[e]
            qAfter == outgoingPackets'[e]
        IN  /\ ArrivalOrder(qAfter)
            /\ Len(CallbackPayloads(e)) <= 1
            /\ IF wintun' # <<>> /\ wintun'[1].at = e
               THEN /\ q # <<>>
                    /\ wintun'[1].packet = Head(q)
                    /\ qAfter = Tail(q)
                    /\ \A i \in 1..Len(qAfter) : TagOf(wintun'[1].packet) < TagOf(qAfter[i])
               ELSE \/ qAfter = <<>> /\ tun'[e] # "processing"
                    \/ qAfter = q /\ \A i \in 1..Len(CallbackPayloads(e)) :
                                        handleNetworkData(e, CallbackPayloads(e)[i]) = <<>>
                    \/ /\ Len(CallbackPayloads(e)) = 1
                       /\ qAfter = Append(q, CallbackPayloads(e)[1])]_vars

\* two numbered payloads waited in the queue of A and the send thread has
\* written the first of them
C34_Witness ==
    /\ wintun # <<>>
    /\ wintun[1].at = "A"
    /\ outgoingPackets["A"] # <<>>
    /\ TagOf(wintun[1].packet) < TagOf(outgoingPackets["A"][1])

SequencedTypes == {HOLE_PUNCH, MESSAGE, DISCONNECT}

\* a copy of the DISCONNECT frame of thread t has been put on the wire and
\* another one follows
DisconnectSent(e, t) == pc[e][t] = "usc_send"

\* the frame out'[i] carries a number above those of the frames the state
\* remembers as sent: the last MESSAGE and the DISCONNECT that is repeated
AboveEarlier(e, i) ==
    /\ lastMsgSeq[e] # <<>> => LessU32(lastMsgSeq[e], SeqOf(out'[i].data))
    /\ \A t \in Threads : DisconnectSent(e, t) => LessU32(SeqOf(loc[e][t]), SeqOf(out'[i].data))

\* the header of the frame out'[i] was built in this step: it carries the
\* value of the counter, which advances
BuiltNow(e, i) ==
    /\ SeqOf(out'[i].data) = nextSeqNumber[e]
    /\ nextSeqNumber'[e] = NextSeq(nextSeqNumber[e])

InTrain(e) == pc[e]["sig"] \in {"ci_connect", "hp_train"}

\* C36: a connectToPeer that is accepted sends five HOLE_PUNCH frames, one in
\* each step of the train, each addressed to the endpoint that was passed in,
\* here the peer's, and the keep-alive timer is armed by the step that follows
\* the fifth and by no step of the train, whatever is received meanwhile.
C36_TrainToEndpoint ==
    [][ /\ \A i \in Produced("A", {HOLE_PUNCH})' : out'[i].dst = Peer("A")
        /\ Produced("A", {HOLE_PUNCH})' # {} =>
              /\ Cardinality(Produced("A", {HOLE_PUNCH})') = 1
              /\ \/ /\ pc["A"]["sig"] = "ci_connect"
                    /\ pc'["A"]["sig"] = "hp_train"
                    /\ cnt'["A"]["sig"] = HolePunchCount - 1
                 \/ /\ pc["A"]["sig"] = "hp_train"
                    /\ cnt["A"]["sig"] \in 1..(HolePunchCount - 1)
                    /\ cnt'["A"]["sig"] = cnt["A"]["sig"] - 1
                    /\ pc'["A"]["sig"] = (IF cnt["A"]["sig"] = 1 THEN "hp_timer" ELSE "hp_train")
        /\ pc["A"]["sig"] = "hp_train" /\ pc'["A"]["sig"] # "hp_train" =>
              /\ cnt["A"]["sig"] = 1
              /\ Produced("A", {HOLE_PUNCH})' # {}
        /\ keepAliveTimer'["A"] = "armed" /\ keepAliveTimer["A"] # "armed" =>
              pc["A"]["sig"] = "hp_timer" ]_vars

\* a hole punch of the train of A has left for the third party
C36_Witness ==
    /\ pc["A"]["sig"] \in {"hp_train", "hp_timer"}
    /\ out # <<>>
    /\ out[1].src = "A"
    /\ PacketTypeOf(out[1].data) = HOLE_PUNCH
    /\ out[1].dst = Stranger

\* C37: a system in CONNECTING leaves CONNECTING by itself, whether or not
\* the signaling server delivers peer-init and whether or not the peer
\* answers the hole punches.
C37_LeavesConnecting ==
    (current_state["A"] = CONNECTING) ~> (current_state["A"] # CONNECTING)

\* the train is over, the keep-alive handler has sent a hole punch of its own
\* and armed the timer again, no frame of the peer was received, and the
\* state is CONNECTING with no event for the monitor
C37_Witness ==
    /\ current_state["A"] = CONNECTING
    /\ pc["A"]["sig"] = "idle"
    /\ running["A"] /\ ~connected["A"]
    /\ keepAliveTimer["A"] = "armed"
    /\ LessU32(ToU32(HolePunchCount), nextSeqNumber["A"])
    /\ event_queue["A"] = <<>>

\* C38: the link flag of the transport is true only while its running flag
\* is true, and it is false from the return of stopConnection to the next
\* connectToPeer, however the receive handler of the I/O worker is interleaved
\* with the statements of stopConnection.
C38_ConnectedOnlyWhileRunning ==
    \A e \in Ends :
        /\ connected[e] => running[e]
        /\ stopped[e] => ~connected[e]

\* stopConnection of A has returned, no thread is inside an operation, and
\* the link flag is true while the transport does not run
C38_Witness ==
    /\ stopped["A"]
    /\ \A t \in {"cli", "mon", "sig"} : pc["A"][t] = "idle"
    /\ current_state["A"] = IDLE
    /\ connected["A"]
    /\ ~running["A"]

\* the session of e is established: state CONNECTED, link up, tunnel
\* processing packets
Established(e) ==
    /\ current_state[e] = CONNECTED
    /\ connected[e]
    /\ tun[e] = "processing"

\* the signaling thread of e takes a step of handleConnectionInit
PeerInitStep(e) ==
    /\ pc[e]["sig"] \in {"idle", "ci_connect"}
    /\ pc'[e]["sig"] # pc[e]["sig"] \/ loc'[e]["sig"] # loc[e]["sig"]

\* C39: a step of the peer-init callback taken while the session is
\* established leaves the state CONNECTED, the link up with the same peer
\* endpoint and the tunnel processing packets.
C39_SessionIntact ==
    [][\A e \in Ends :
          Established(e) /\ PeerInitStep(e) =>
              /\ Established(e)'
              /\ peerEndpoint'[e] = peerEndpoint[e]]_vars

\* no stopConnection has run, the link is up and the tunnel processes
\* packets, the peer-init callback has returned, and the state is IDLE
C39_Witness ==
    /\ current_state["A"] = IDLE
    /\ connected["A"] /\ running["A"]
    /\ peerEndpoint["A"] = Peer("A")
    /\ tun["A"] = "processing"
    /\ ~stopped["A"]
    /\ \A t \in {"cli", "mon", "sig"} : pc["A"][t] = "idle"

\* a packet crosses the bridge of e in a step: a MESSAGE frame leaves for the
\* peer or a payload is pushed on the tunnel's queue
Bridged(e) ==
    \/ Produced(e, {MESSAGE})' # {}
    \/ \E i \in 1..Len(delivered') : delivered'[i].to = e /\ delivered'[i].toTun # <<>>

\* C40: in a state that is IDLE with no stopConnection, shutdown, peer-init
\* handling or event handling in progress the link flag is false and the
\* tunnel does not process packets, and a step taken from such a state carries
\* no packet across the bridge in either direction.
C40_IdleBridgesNothing ==
    [][\A e \in Ends :
          current_state[e] = IDLE /\ Quiet(e) =>
              /\ ~connected[e]
              /\ tun[e] # "processing"
              /\ ~Bridged(e)]_vars

\* the state was IDLE with no operation in progress and a packet of the
\* tunnel has left as a MESSAGE frame
C40_Witness ==
    /\ current_state["A"] = IDLE
    /\ Quiet("A")
    /\ Produced("A", {MESSAGE}) # {}

====
